---- MODULE Spec2Model ----
(***************************************************************************)
(* Price Drop Hunter (src/main.py): the watchlist kept in the "Products"   *)
(* worksheet, the append-only "Price_History" worksheet, the watchlist     *)
(* commands and the price-check cycle (phase2_check_prices followed by     *)
(* phase3_notify).                                                         *)
(*                                                                         *)
(* Prices are integers counting thousandths of a rupee (900002 is          *)
(* 900.002), so that the two-decimal formatting f"{p:.2f}" the code        *)
(* writes into the sheet is a real rounding and not the identity.  An      *)
(* optional value is a sequence: <<>> when absent ("N/A", "" or None),     *)
(* <<v>> when present.                                                     *)
(***************************************************************************)
EXTENDS Integers, Sequences, FiniteSets, TLC

VARIABLES
    rows,       \* data rows of the Products worksheet (header row left out)
    history,    \* data rows of the Price_History worksheet
    pc,         \* position of the running invocation: idle, notify, done
    all_rows,   \* phase2_check_prices: the rows read at the start of the cycle
    hist0,      \* number of Price_History rows when the cycle started
    scraped,    \* per row of all_rows: what scrape_product_info returned
    alerts,     \* phase2_check_prices: the alert list it returns
    changes,    \* phase2_check_prices: the change list it returns
    checked,    \* phase2_check_prices: its counter of extracted prices
    total,      \* main / check_prices_endpoint: the count passed as total_checked
    failed,     \* store writes of this cycle that raised (and were swallowed)
    message,    \* phase3_notify: the digest it composed, absent if none
    delivered,  \* send_telegram_message returned True for the digest
    log,        \* per completed cycle: what row 1 observed and whether it alerted
    nfaults,    \* number of store writes and sends that failed so far
    reply,      \* per message of the last command invocation: what was answered
    printed,    \* test_scraping: per URL tried, the response served and the result
    requests,   \* webhook: the add requests being served, each with its position
    last_update_id, \* Settings!A1: the last processed Telegram update ID
    inbox,      \* Telegram: the updates received for the bot, oldest first
    applied,    \* the update IDs whose command changed the sheet, in that order
    secret,     \* WEBHOOK_SECRET, "" when not configured
    answered    \* the Flask app: route and token of the last request and the
                \* status it was answered with (0 while it is being served)

vars == <<rows, history, pc, all_rows, hist0, scraped, alerts, changes, checked,
          total, failed, message, delivered, log, nfaults, reply, printed,
          requests, last_update_id, inbox, applied, secret, answered>>

locals == <<all_rows, hist0, scraped, alerts, changes, checked, total, failed,
            message, delivered>>

\* what the webhook and the Telegram polling of main keep beside the sheet
web == <<requests, last_update_id, inbox, applied, secret>>

NoResponse == [route |-> "", status |-> 0, token |-> ""]

-----------------------------------------------------------------------------
(* Bounds and input domains *)

MaxHist == 2        \* Spec: cycles start only while the history fits
MaxCycles == 6      \* SpecLaw: number of cycles of one run
MaxFaults == 1      \* number of failing store writes and sends of one run
AutoRange == 300    \* auto-targets are computed for prices up to AutoRange paise
MaxRequests == 2    \* SpecAdds: add requests the webhook serves at the same time
MaxUpdates == 3     \* SpecUpd: updates Telegram receives for the bot

Absent == <<>>
Some(v) == <<v>>

Rs(n) == n * 1000   \* whole rupees in thousandths

\* URLs as token sequences: a marketplace marker, a path, an optional query.
URLs == { <<"amazon", "/a">>, <<"flipkart", "/f", "?", "x">> }

Titles == {"Kettle"}
SeedPrices == {Rs(1200)}              \* prices the seeding extraction of add sees
AddTargets == {Rs(1000)}              \* explicit targets given to add
EditTargets == {Rs(875)}              \* targets given to edit
Prices == {900002, Rs(1200)} \* live prices a cycle observes (Spec)
LawPrices == {Rs(850), Rs(900), Rs(1200)} \* live prices a cycle observes (SpecLaw)

-----------------------------------------------------------------------------
(* Number formatting *)

\* f"{p:.2f}": p rounded to a whole number of paise (10 thousandths).  No
\* price of the model lies exactly halfway between two paise.
Round2(p) == LET r == p % 10 IN IF r < 5 THEN p - r ELSE p - r + 10

\* f"{t:.0f}": t rounded to whole rupees, an exact half going to the even
\* neighbour.
Round0(t) ==
    LET r == t % 1000
        lo == t - r
    IN  IF r < 500 THEN lo
        ELSE IF r > 500 THEN lo + 1000
        ELSE IF (lo \div 1000) % 2 = 0 THEN lo ELSE lo + 1000

\* round(x): x given as num / den, rounded to an integer, an exact half going
\* to the even neighbour.
RoundDiv(num, den) ==
    LET q == num \div den
        r == num % den
    IN  IF 2 * r < den THEN q
        ELSE IF 2 * r > den THEN q + 1
        ELSE IF q % 2 = 0 THEN q ELSE q + 1

-----------------------------------------------------------------------------
(* URLs *)

Contains(url, tok) == \E k \in 1..Len(url) : url[k] = tok

\* str.lower on a piece of a URL
LowerTok(tok) ==
    IF tok \in {"Amazon", "AMAZON"} THEN "amazon"
    ELSE IF tok \in {"Flipkart", "FLIPKART"} THEN "flipkart"
    ELSE tok

\* url.lower()
Lower(url) == [k \in 1..Len(url) |-> LowerTok(url[k])]

\* variant: the URL is matched as it is spelled
detect_platform_cased(url) ==
    IF Contains(url, "amazon") THEN "amazon"
    ELSE IF Contains(url, "flipkart") THEN "flipkart"
    ELSE "unknown"

detect_platform(url) ==
    IF Contains(Lower(url), "amazon") THEN "amazon"
    ELSE IF Contains(Lower(url), "flipkart") THEN "flipkart"
    ELSE "unknown"

\* url.split("?")[0]
BaseUrl(url) ==
    IF Contains(url, "?")
    THEN SubSeq(url, 1, (CHOOSE k \in 1..Len(url) :
                            url[k] = "?" /\ \A j \in 1..(k - 1) : url[j] # "?") - 1)
    ELSE url

\* variant: only the first data row is looked at
is_duplicate_url_first(rs, url) ==
    Len(rs) > 0 /\ BaseUrl(rs[1].url) = BaseUrl(url)

\* variant: the URLs are compared whole
is_duplicate_url_exact(rs, url) ==
    \E k \in 1..Len(rs) : rs[k].url = url

is_duplicate_url(rs, url) ==
    \E k \in 1..Len(rs) : BaseUrl(rs[k].url) = BaseUrl(url)

Capitalize(platform) ==
    IF platform = "amazon" THEN "Amazon"
    ELSE IF platform = "flipkart" THEN "Flipkart"
    ELSE "Unknown"

-----------------------------------------------------------------------------
(* Results of scrape_product_info *)

NoInfo == [kind |-> "none", title |-> Absent, price |-> Absent]
Raised == [kind |-> "raised", title |-> Absent, price |-> Absent]
NotCalled == [kind |-> "not_called", title |-> Absent, price |-> Absent]
Info(t, p) == [kind |-> "info", title |-> t, price |-> p]

\* what the seeding extraction of add returns: nothing, or title and price
AddResults ==
    {NoInfo} \cup { Info(Some(t), Some(p)) : t \in Titles, p \in SeedPrices }

\* what the extraction of a cycle returns: nothing, no price, or a price
CycleResults(P) ==
    {NoInfo, Info(Absent, Absent)} \cup { Info(Absent, Some(x)) : x \in P }


-----------------------------------------------------------------------------
(* Watchlist commands: phase1_process_commands and process_single_message  *)
(* apply the same store operations.                                        *)

Init ==
    /\ rows = <<>>
    /\ history = <<>>
    /\ pc = "idle"
    /\ all_rows = <<>>
    /\ hist0 = 0
    /\ scraped = <<>>
    /\ alerts = <<>>
    /\ changes = <<>>
    /\ checked = 0
    /\ total = 0
    /\ failed = {}
    /\ message = Absent
    /\ delivered = FALSE
    /\ log = <<>>
    /\ nfaults = 0
    /\ reply = <<>>
    /\ printed = <<>>
    /\ requests = <<>>
    /\ last_update_id = 0
    /\ inbox = <<>>
    /\ applied = <<>>
    /\ secret = ""
    /\ answered = NoResponse

\* variant: 85% of the price, not rounded
AutoTargetUnrounded(current_price) == (current_price * 85) \div 100

\* round(current_price * 0.85), in thousandths of a rupee
AutoTarget(current_price) == Rs(RoundDiv(current_price * 85, 100000))

\* the name handle_add_product stores
AddName(url, info) ==
    IF info.kind = "info" /\ info.title # Absent
    THEN info.title[1]
    ELSE "Product (" \o Capitalize(detect_platform(url)) \o ")"

\* variant: a scraped price takes precedence over the target given
AddTargetAutoFirst(target_price, current_price) ==
    IF current_price # Absent THEN AutoTarget(current_price[1])
    ELSE IF target_price = Absent THEN 0
    ELSE target_price[1]

\* the target handle_add_product stores
AddTarget(target_price, current_price) ==
    IF target_price = Absent /\ current_price # Absent
    THEN AutoTarget(current_price[1])
    ELSE IF target_price = Absent THEN 0
    ELSE target_price[1]

\* the row handle_add_product appends: columns E and F stay blank
\* variant: the seeded price is also written to Last_Alerted
NewRowAlerted(url, target_price, info) ==
    LET current_price == IF info.kind = "info" THEN info.price ELSE Absent
    IN  [name |-> AddName(url, info),
         url |-> url,
         target |-> AddTarget(target_price, current_price),
         price |-> current_price,
         alerted |-> current_price,
         status |-> ""]

NewRow(url, target_price, info) ==
    LET current_price == IF info.kind = "info" THEN info.price ELSE Absent
    IN  [name |-> AddName(url, info),
         url |-> url,
         target |-> AddTarget(target_price, current_price),
         price |-> current_price,
         alerted |-> Absent,
         status |-> ""]

handle_add_product(url, target_price, info) ==
    /\ pc = "idle"
    /\ detect_platform(url) # "unknown"
    /\ ~is_duplicate_url(rows, url)
    /\ rows' = Append(rows, NewRow(url, target_price, info))
    /\ UNCHANGED <<history, pc, locals, log, nfaults, reply, printed, web, answered>>

\* variant: the last row goes, whichever was named
DeleteRowLast(rs, idx) == SubSeq(rs, 1, Len(rs) - 1)

DeleteRow(rs, idx) == SubSeq(rs, 1, idx - 1) \o SubSeq(rs, idx + 1, Len(rs))

\* row 1 of the Products worksheet
Header ==
    [name |-> "Name", url |-> <<"URL">>, target |-> 0, price |-> Some(0),
     alerted |-> Some(0), status |-> "Status"]

\* get_all_values(): the header and the data rows
Sheet(rs) == <<Header>> \o rs

\* all_rows[1:]
DataRows(sheet) == SubSeq(sheet, 2, Len(sheet))

\* range(data_count + 1, 1, -1)
ClearRowIndexes(data_count) == [k \in 1..data_count |-> data_count + 2 - k]

\* /remove all: delete_rows(row_idx) for each row_idx of the range
ClearSheet(sheet) ==
    LET idxs == ClearRowIndexes(Len(sheet) - 1)
        f[k \in 0..Len(idxs)] ==
            IF k = 0 THEN sheet ELSE DeleteRow(f[k - 1], idxs[k])
    IN  f[Len(idxs)]

Remove(idx) ==
    /\ pc = "idle"
    /\ idx >= 1 /\ idx <= Len(rows)
    /\ rows' = DeleteRow(rows, idx)
    /\ UNCHANGED <<history, pc, locals, log, nfaults, reply, printed, web, answered>>

RemoveAll ==
    /\ pc = "idle"
    /\ Len(rows) > 0
    /\ rows' = <<>>
    /\ UNCHANGED <<history, pc, locals, log, nfaults, reply, printed, web, answered>>

Edit(idx, new_price) ==
    /\ pc = "idle"
    /\ idx >= 1 /\ idx <= Len(rows)
    /\ rows' = [rows EXCEPT ![idx].target = new_price]
    /\ UNCHANGED <<history, pc, locals, log, nfaults, reply, printed, web, answered>>

Pause(idx) ==
    /\ pc = "idle"
    /\ idx >= 1 /\ idx <= Len(rows)
    /\ rows' = [rows EXCEPT ![idx].status = "paused"]
    /\ UNCHANGED <<history, pc, locals, log, nfaults, reply, printed, web, answered>>

\* variant: resume also clears Last_Alerted
ResumeClearsAlerted(idx) ==
    /\ pc = "idle"
    /\ idx >= 1 /\ idx <= Len(rows)
    /\ rows' = [rows EXCEPT ![idx].status = "active", ![idx].alerted = Absent]
    /\ UNCHANGED <<history, pc, locals, log, nfaults, reply, printed, web, answered>>

Resume(idx) ==
    /\ pc = "idle"
    /\ idx >= 1 /\ idx <= Len(rows)
    /\ rows' = [rows EXCEPT ![idx].status = "active"]
    /\ UNCHANGED <<history, pc, locals, log, nfaults, reply, printed, web, answered>>

-----------------------------------------------------------------------------
(* The price-check cycle *)

\* variant: the status cell is not consulted
ActiveAnyStatus(r) == TRUE

Active(r) == r.status # "paused"

\* scrape_product_info returned a price (not None, no exception)
Extracted(res) == res.kind = "info" /\ res.price # Absent

\* a row of the cycle that gets past both skips of the loop
Checked(r, res) == Active(r) /\ Extracted(res)

\* variant: the comparison with Last_Alerted is dropped
QualifiesNoDedup(r, live_price) == live_price <= r.target

\* variant: the comparison with Last_Alerted is made on the unformatted price
QualifiesRawPrice(r, live_price) ==
    /\ live_price <= r.target
    /\ r.alerted # Some(live_price)

\* the test that puts an entry in the alert list
Qualifies(r, live_price) ==
    /\ live_price <= r.target
    /\ r.alerted # Some(Round2(live_price))

\* the test that clears Last_Alerted
Clears(r, live_price) == live_price > r.target /\ r.alerted # Absent

\* variant: the stored price is compared with the formatted live price
MovedRounded(r, live_price) ==
    r.price # Absent /\ r.price[1] # Round2(live_price)

\* the test that puts an entry in the change list
Moved(r, live_price) == r.price # Absent /\ r.price[1] # live_price

\* variant: the first failing write ends the loop, later rows stay as they were
RowAfterCheckAborts(r, res, k, bad) ==
    IF ~Checked(r, res) \/ (\E w \in bad : w[1] < k) THEN r
    ELSE LET live_price == res.price[1]
             r1 == IF <<k, "price">> \notin bad
                   THEN [r EXCEPT !.price = Some(Round2(live_price))]
                   ELSE r
         IN  IF Clears(r, live_price) /\ <<k, "clear">> \notin bad
             THEN [r1 EXCEPT !.alerted = Absent]
             ELSE r1

\* variant: a checked row is marked active
RowAfterCheckMarksActive(r, res, k, bad) ==
    IF ~Checked(r, res) THEN r
    ELSE LET live_price == res.price[1]
             r1 == IF <<k, "price">> \notin bad
                   THEN [r EXCEPT !.price = Some(Round2(live_price)),
                                  !.status = "active"]
                   ELSE r
         IN  IF Clears(r, live_price) /\ <<k, "clear">> \notin bad
             THEN [r1 EXCEPT !.alerted = Absent]
             ELSE r1

\* variant: Last_Alerted is left alone when the price is above target
RowAfterCheckNoClear(r, res, k, bad) ==
    IF ~Checked(r, res) \/ <<k, "price">> \in bad THEN r
    ELSE [r EXCEPT !.price = Some(Round2(res.price[1]))]

\* variant: a failed extraction marks the Current_Price cell as not available
RowAfterCheckMarksFailure(r, res, k, bad) ==
    IF ~Active(r) THEN r
    ELSE IF ~Extracted(res) THEN [r EXCEPT !.price = Absent]
    ELSE LET live_price == res.price[1]
             r1 == IF <<k, "price">> \notin bad
                   THEN [r EXCEPT !.price = Some(Round2(live_price))]
                   ELSE r
         IN  IF Clears(r, live_price) /\ <<k, "clear">> \notin bad
             THEN [r1 EXCEPT !.alerted = Absent]
             ELSE r1

\* variant: the Current_Price cell receives the price unformatted
RowAfterCheckRawPrice(r, res, k, bad) ==
    IF ~Checked(r, res) THEN r
    ELSE LET live_price == res.price[1]
             r1 == IF <<k, "price">> \notin bad
                   THEN [r EXCEPT !.price = Some(live_price)]
                   ELSE r
         IN  IF Clears(r, live_price) /\ <<k, "clear">> \notin bad
             THEN [r1 EXCEPT !.alerted = Absent]
             ELSE r1

\* the row as phase2_check_prices leaves it in the sheet; k is its position
\* and bad the store writes that raise
RowAfterCheck(r, res, k, bad) ==
    IF ~Checked(r, res) THEN r
    ELSE LET live_price == res.price[1]
             r1 == IF <<k, "price">> \notin bad
                   THEN [r EXCEPT !.price = Some(Round2(live_price))]
                   ELSE r
         IN  IF Clears(r, live_price) /\ <<k, "clear">> \notin bad
             THEN [r1 EXCEPT !.alerted = Absent]
             ELSE r1

HistoryRecord(r, live_price) ==
    [name |-> r.name, price |-> Round2(live_price), target |-> Round0(r.target)]

AlertRecord(r, live_price, i) ==
    [name |-> r.name, url |-> r.url, live_price |-> live_price,
     target_price |-> r.target, saved |-> r.target - live_price,
     row_index |-> i + 1]

ChangeRecord(r, live_price) ==
    [name |-> r.name, old_price |-> r.price[1], new_price |-> live_price,
     diff |-> live_price - r.price[1], target |-> r.target]

\* variant: a price is logged only when it qualifies for an alert
AppendedHistoryOfAlerts(rs, res, bad) ==
    LET f[k \in 0..Len(rs)] ==
            IF k = 0 THEN <<>>
            ELSE IF /\ Checked(rs[k], res[k])
                    /\ Qualifies(rs[k], res[k].price[1])
                    /\ <<k, "history">> \notin bad
                 THEN Append(f[k - 1], HistoryRecord(rs[k], res[k].price[1]))
                 ELSE f[k - 1]
    IN  f[Len(rs)]

\* the rows log_price_history appends during the loop, in loop order
AppendedHistory(rs, res, bad) ==
    LET f[k \in 0..Len(rs)] ==
            IF k = 0 THEN <<>>
            ELSE IF Checked(rs[k], res[k]) /\ <<k, "history">> \notin bad
                 THEN Append(f[k - 1], HistoryRecord(rs[k], res[k].price[1]))
                 ELSE f[k - 1]
    IN  f[Len(rs)]

AlertList(rs, res) ==
    LET f[k \in 0..Len(rs)] ==
            IF k = 0 THEN <<>>
            ELSE IF Checked(rs[k], res[k]) /\ Qualifies(rs[k], res[k].price[1])
                 THEN Append(f[k - 1], AlertRecord(rs[k], res[k].price[1], k))
                 ELSE f[k - 1]
    IN  f[Len(rs)]

\* variant: the change list is built backwards
ChangeListReversed(rs, res) ==
    LET f[k \in 0..Len(rs)] ==
            IF k = 0 THEN <<>>
            ELSE IF Checked(rs[k], res[k]) /\ Moved(rs[k], res[k].price[1])
                 THEN <<ChangeRecord(rs[k], res[k].price[1])>> \o f[k - 1]
                 ELSE f[k - 1]
    IN  f[Len(rs)]

ChangeList(rs, res) ==
    LET f[k \in 0..Len(rs)] ==
            IF k = 0 THEN <<>>
            ELSE IF Checked(rs[k], res[k]) /\ Moved(rs[k], res[k].price[1])
                 THEN Append(f[k - 1], ChangeRecord(rs[k], res[k].price[1]))
                 ELSE f[k - 1]
    IN  f[Len(rs)]

\* the store writes the loop attempts: Current_Price and the history row of
\* every checked row, and the clearing of Last_Alerted
LoopWrites(rs, res) ==
    { <<k, "price">> : k \in { j \in 1..Len(rs) : Checked(rs[j], res[j]) } }
    \cup
    { <<k, "history">> : k \in { j \in 1..Len(rs) : Checked(rs[j], res[j]) } }
    \cup
    { <<k, "clear">> : k \in { j \in 1..Len(rs) :
          Checked(rs[j], res[j]) /\ Clears(rs[j], res[j].price[1]) } }

\* main and check_prices_endpoint count the data rows, then run the loop.
\* res[k] is what scrape_product_info returns for row k (a paused row is
\* skipped before the call); bad are the store writes that raise.
\* variant: an entry is fetched a second time
FetchCallsRetried(rs) ==
    LET f[k \in 0..Len(rs)] ==
            IF k = 0 THEN <<>>
            ELSE IF Active(rs[k]) THEN f[k - 1] \o <<k, k>>
                 ELSE f[k - 1]
    IN  f[Len(rs)]

\* the rows for which the loop calls scrape_product_info, in the order of the
\* calls
FetchCalls(rs) ==
    LET f[k \in 0..Len(rs)] ==
            IF k = 0 THEN <<>>
            ELSE IF Active(rs[k]) THEN Append(f[k - 1], k)
                 ELSE f[k - 1]
    IN  f[Len(rs)]

\* a Target_Price cell that float() rejects (empty, or text typed into the sheet)
Unparseable == -1

\* target = float(row[2]) returns
ParsesTarget(r) == r.target # Unparseable

\* total = len(get_all_values()) - 1 followed by phase2_check_prices, on the
\* sheet as it is when the caller reaches them
CheckPrices(res, bad) ==
    /\ \A k \in 1..Len(rows) : ParsesTarget(rows[k])
    /\ \A k \in 1..Len(rows) : (res[k] = NotCalled) <=> ~Active(rows[k])
    /\ bad \subseteq LoopWrites(rows, res)
    /\ total' = Len(rows)
    /\ all_rows' = rows
    /\ hist0' = Len(history)
    /\ scraped' = res
    /\ rows' = [k \in 1..Len(rows) |-> RowAfterCheck(rows[k], res[k], k, bad)]
    /\ history' = history \o AppendedHistory(rows, res, bad)
    /\ alerts' = AlertList(rows, res)
    /\ changes' = ChangeList(rows, res)
    /\ checked' = Cardinality({ k \in 1..Len(rows) : Checked(rows[k], res[k]) })
    /\ failed' = bad
    /\ nfaults' = nfaults + Cardinality(bad)
    /\ UNCHANGED <<message, delivered, log, reply, printed, web>>

\* check_prices_endpoint: the cycle on its own
phase2_check_prices(res, bad) ==
    /\ pc = "idle"
    /\ pc' = "notify"
    /\ CheckPrices(res, bad)
    /\ UNCHANGED answered

\* the Last_Alerted writes phase3_notify attempts, by position in the sheet
AlertWrites(al) == { <<al[k].row_index - 1, "alerted">> : k \in 1..Len(al) }

\* variant: Last_Alerted receives the target instead of the live price
AfterAlertWritesTarget(rs, al, bad) ==
    LET f[k \in 0..Len(al)] ==
            IF k = 0 THEN rs
            ELSE IF <<al[k].row_index - 1, "alerted">> \notin bad
                    /\ al[k].row_index - 1 <= Len(rs)
                 THEN [f[k - 1] EXCEPT ![al[k].row_index - 1].alerted =
                                            Some(Round2(al[k].target_price))]
                 ELSE f[k - 1]
    IN  f[Len(al)]

\* variant: phase 3 is not handed the worksheet and writes nothing
AfterAlertWritesSkipped(rs, al, bad) == rs

\* variant: the header row is not counted, the write lands one row too low
AfterAlertWritesOffByOne(rs, al, bad) ==
    LET f[k \in 0..Len(al)] ==
            IF k = 0 THEN rs
            ELSE IF <<al[k].row_index - 1, "alerted">> \notin bad
                    /\ al[k].row_index <= Len(rs)
                 THEN [f[k - 1] EXCEPT ![al[k].row_index].alerted =
                                            Some(Round2(al[k].live_price))]
                 ELSE f[k - 1]
    IN  f[Len(al)]

\* the sheet after the Last_Alerted writes of phase3_notify
AfterAlertWrites(rs, al, bad) ==
    LET f[k \in 0..Len(al)] ==
            IF k = 0 THEN rs
            ELSE IF <<al[k].row_index - 1, "alerted">> \notin bad
                    /\ al[k].row_index - 1 <= Len(rs)
                 THEN [f[k - 1] EXCEPT ![al[k].row_index - 1].alerted =
                                            Some(Round2(al[k].live_price))]
                 ELSE f[k - 1]
    IN  f[Len(al)]

\* the summary footer of the digest
Footer(total_checked, nchanges, nalerts) ==
    LET unchanged == total_checked - nchanges - nalerts
    IN  IF total_checked > 0 /\ unchanged > 0 /\ nchanges = 0 /\ nalerts = 0
        THEN <<"all_checked", total_checked>>
        ELSE IF total_checked > 0 /\ unchanged > 0
        THEN <<"others_unchanged", unchanged>>
        ELSE <<>>

\* the digest phase3_notify composes with no newly added products
\* variant: the confirmations of phase 1 are left out of the digest
DigestWithoutAdded(added, al, ch, total_checked) ==
    IF al = <<>> /\ ch = <<>> /\ Footer(total_checked, Len(ch), Len(al)) = <<>>
    THEN Absent
    ELSE Some([added |-> <<>>, alerts |-> al, changes |-> ch,
               footer |-> Footer(total_checked, Len(ch), Len(al))])

\* the lines of phase3_notify, absent if there are none
DigestWith(added, al, ch, total_checked) ==
    IF added = <<>> /\ al = <<>> /\ ch = <<>>
       /\ Footer(total_checked, Len(ch), Len(al)) = <<>>
    THEN Absent
    ELSE Some([added |-> added, alerts |-> al, changes |-> ch,
               footer |-> Footer(total_checked, Len(ch), Len(al))])

\* the digest of check_prices_endpoint, which passes no confirmations
Digest(al, ch, total_checked) == DigestWith(<<>>, al, ch, total_checked)

\* bad are the Last_Alerted writes that raise; sendOK tells whether the
\* notifier delivers the digest
\* the first row whose Target_Price does not parse
FirstBad(rs) ==
    CHOOSE k \in 1..Len(rs) :
        ~ParsesTarget(rs[k]) /\ \A j \in 1..(k - 1) : ParsesTarget(rs[j])

\* the loop reaches a row whose Target_Price does not parse: float() raises
\* ValueError before the paused test and outside every try, the rows before it
\* have been processed, the function returns nothing
phase2_check_prices_raises(res, bad) ==
    /\ pc = "idle"
    /\ \E k \in 1..Len(rows) : ~ParsesTarget(rows[k])
    /\ LET b == FirstBad(rows)
           before == SubSeq(rows, 1, b - 1)
       IN  /\ \A k \in 1..Len(rows) :
                 (res[k] = NotCalled) <=> (k >= b \/ ~Active(rows[k]))
           /\ bad \subseteq LoopWrites(before, res)
           /\ pc' = "raised"
           /\ total' = Len(rows)
           /\ all_rows' = rows
           /\ hist0' = Len(history)
           /\ scraped' = res
           /\ rows' = [k \in 1..Len(rows) |->
                         IF k < b THEN RowAfterCheck(rows[k], res[k], k, bad)
                         ELSE rows[k]]
           /\ history' = history \o AppendedHistory(before, res, bad)
           /\ alerts' = <<>>
           /\ changes' = <<>>
           /\ checked' = Cardinality({ k \in 1..(b - 1) : Checked(rows[k], res[k]) })
           /\ failed' = bad
           /\ nfaults' = nfaults + Cardinality(bad)
    /\ UNCHANGED <<message, delivered, log, reply, printed, web, answered>>

\* phase3_notify(added_messages, alerts, changes, total, products_ws)
Notify(added, bad, sendOK) ==
    /\ bad \subseteq AlertWrites(alerts)
    /\ sendOK \/ DigestWith(added, alerts, changes, total) # Absent
    /\ rows' = AfterAlertWrites(rows, alerts, bad)
    /\ message' = DigestWith(added, alerts, changes, total)
    /\ delivered' = (DigestWith(added, alerts, changes, total) # Absent /\ sendOK)
    /\ failed' = failed \cup bad
    /\ nfaults' = nfaults + Cardinality(bad) + (IF sendOK THEN 0 ELSE 1)
    /\ UNCHANGED <<history, all_rows, hist0, scraped, alerts, changes, checked,
                   total, log, reply, printed, web, answered>>

\* check_prices_endpoint: phase3_notify([], alerts, changes, total, products_ws)
phase3_notify(bad, sendOK) ==
    /\ pc = "notify"
    /\ pc' = "done"
    /\ Notify(<<>>, bad, sendOK)

\* what the finished cycle is remembered for: row 1's observation
LogEntry ==
    [price |-> scraped[1].price,
     alerted |-> \E k \in 1..Len(alerts) : alerts[k].row_index = 2,
     prior |-> all_rows[1].alerted,
     target |-> all_rows[1].target,
     clean |-> failed = {},
     failed |-> failed]

\* the invocation returns: its locals are gone
Finish(track) ==
    /\ pc = "done"
    /\ pc' = "idle"
    /\ all_rows' = <<>>
    /\ hist0' = 0
    /\ scraped' = <<>>
    /\ alerts' = <<>>
    /\ changes' = <<>>
    /\ checked' = 0
    /\ total' = 0
    /\ failed' = {}
    /\ message' = Absent
    /\ delivered' = FALSE
    /\ log' = IF track /\ Len(all_rows) > 0 THEN Append(log, LogEntry) ELSE log
    /\ UNCHANGED <<rows, history, nfaults, reply, printed, web>>

\* main returns, or check_prices_endpoint with no response recorded
Return(track) == Finish(track) /\ UNCHANGED answered

\* the exception leaves the run: main ends with a traceback, the endpoint
\* answers 500; phase3_notify is not reached
Abandon ==
    /\ pc = "raised"
    /\ pc' = "idle"
    /\ all_rows' = <<>>
    /\ hist0' = 0
    /\ scraped' = <<>>
    /\ alerts' = <<>>
    /\ changes' = <<>>
    /\ checked' = 0
    /\ total' = 0
    /\ failed' = {}
    /\ message' = Absent
    /\ delivered' = FALSE
    /\ UNCHANGED <<rows, history, log, nfaults, reply, printed, web, answered>>

\* the owner types text into the Target_Price cell of a row of the sheet
SheetCellEdited(idx) ==
    /\ pc = "idle"
    /\ idx >= 1 /\ idx <= Len(rows)
    /\ ParsesTarget(rows[idx])
    /\ rows' = [rows EXCEPT ![idx].target = Unparseable]
    /\ UNCHANGED <<history, pc, locals, log, nfaults, reply, printed, web, answered>>

-----------------------------------------------------------------------------
(* The extractor.  A page is what the parsers find in it: ld_price and       *)
(* ld_title are what the JSON-LD traversals return, tags maps the CSS        *)
(* selectors that match to the text of the first matching element (a price   *)
(* text being the numbers in it, a title text a word), meta the contents of  *)
(* the two price meta tags, og_title the og:title content, title the words   *)
(* of the <title> tag, rupees the numbers that follow a rupee sign in the    *)
(* raw text.  A content that float() rejects is Unparseable.                 *)

\* if price: / if p:
Truthy(v) == v # Absent /\ v[1] # 0

\* if title:
TruthyTitle(v) == v # Absent /\ v[1] # ""

\* extract_price(text): the first number of the text
extract_price(text) == IF text = <<>> THEN Absent ELSE Some(text[1])

\* JSON values of the price keys of an offer: the key is missing or null, a
\* number, or a string (v the number it spells, Unparseable if it spells none)
NoValue == [kind |-> "none", v |-> 0]
Num(n) == [kind |-> "number", v |-> n]
Str(n) == [kind |-> "string", v |-> n]

\* `if x:` on a JSON value: None and 0 are falsy, a non-empty string is truthy
PyTruthy(x) == (x.kind = "number" /\ x.v # 0) \/ x.kind = "string"

\* x or y
PyOr(x, y) == IF PyTruthy(x) THEN x ELSE y

\* the offers of an item: shape is "missing" (no such key), "dict", "list"
\* (a list whose first element is a dict, price and lowPrice being its keys),
\* "empty_list", or "text" (a string, or a list of strings)
Offers(shape, price, lowPrice) == [shape |-> shape, price |-> price, lowPrice |-> lowPrice]

NoOffers == Offers("missing", NoValue, NoValue)

\* an element of a JSON-LD block
LdItem(is_dict, type, offers) == [is_dict |-> is_dict, type |-> type, offers |-> offers]

\* item.get("@type") == "Product" or item.get("offers")
IsProduct(item) ==
    item.type = "Product" \/ item.offers.shape \in {"dict", "list", "text"}

\* one turn of the inner loop: "next" (continue), "raise" (AttributeError or
\* ValueError, caught outside the inner loop) or "return" with the float
ItemStep(item) ==
    IF ~item.is_dict THEN [st |-> "next", v |-> 0]
    ELSE IF ~IsProduct(item) THEN [st |-> "next", v |-> 0]
    ELSE IF item.offers.shape = "text" THEN [st |-> "raise", v |-> 0]
    ELSE IF item.offers.shape \in {"missing", "empty_list"} THEN [st |-> "next", v |-> 0]
    ELSE LET price == PyOr(item.offers.price, item.offers.lowPrice)
         IN  IF ~PyTruthy(price) THEN [st |-> "next", v |-> 0]
             ELSE IF price.v = Unparseable THEN [st |-> "raise", v |-> 0]
             ELSE [st |-> "return", v |-> price.v]

\* a block whose text json.loads rejects
Malformed == << LdItem(FALSE, "malformed", NoOffers) >>

\* the inner loop over the items of a block, inside the try
BlockResult(items) ==
    LET f[k \in 0..Len(items)] ==
            IF k = 0 THEN [st |-> "next", v |-> 0]
            ELSE IF f[k - 1].st # "next" THEN f[k - 1]
            ELSE ItemStep(items[k])
    IN  IF items = Malformed THEN [st |-> "raise", v |-> 0] ELSE f[Len(items)]

\* extract_price_from_json_ld(soup): blocks are the ld+json scripts of the
\* page in document order, each the sequence of its items
extract_price_from_json_ld(blocks) ==
    LET f[k \in 0..Len(blocks)] ==
            IF k = 0 THEN Absent
            ELSE IF f[k - 1] # Absent THEN f[k - 1]
            ELSE IF BlockResult(blocks[k]).st = "return"
                 THEN Some(BlockResult(blocks[k]).v)
                 ELSE Absent
    IN  f[Len(blocks)]

AmazonPriceSelectors ==
    << "span.a-price-whole", "span#priceblock_dealprice",
       "span#priceblock_ourprice", "span.a-offscreen",
       "div#corePrice_feature_div span.a-price-whole",
       "span.priceToPay span.a-price-whole" >>

FlipkartPriceSelectors ==
    << "div.Nx9bqj.CxhGGd", "div._30jeq3._16Jk6d", "div._30jeq3", "div.Nx9bqj" >>

AmazonTitleSelectors == << "span#productTitle" >>

FlipkartTitleSelectors == << "span.VU-ZEz", "h1.yhB1nd", "span.B_NuCI", "h1._9E25nV" >>

PriceSelectors(platform) ==
    IF platform = "amazon" THEN AmazonPriceSelectors
    ELSE IF platform = "flipkart" THEN FlipkartPriceSelectors
    ELSE <<>>

TitleSelectors(platform) ==
    IF platform = "amazon" THEN AmazonTitleSelectors
    ELSE IF platform = "flipkart" THEN FlipkartTitleSelectors
    ELSE <<>>

\* strategy 2 of scrape_price: the selectors of the platform in their order,
\* the first whose element holds a number other than 0
PriceFromSelectors(page, platform) ==
    LET sel == PriceSelectors(platform)
        f[k \in 0..Len(sel)] ==
            IF k = 0 THEN Absent
            ELSE IF f[k - 1] # Absent THEN f[k - 1]
            ELSE IF sel[k] \in DOMAIN page.tags
                    /\ Truthy(extract_price(page.tags[sel[k]]))
                 THEN extract_price(page.tags[sel[k]])
                 ELSE Absent
    IN  f[Len(sel)]

\* extract_price_from_meta: product:price:amount, then og:price:amount; the
\* first content that float() accepts
extract_price_from_meta(page) ==
    LET f[k \in 0..Len(page.meta)] ==
            IF k = 0 THEN Absent
            ELSE IF f[k - 1] # Absent THEN f[k - 1]
            ELSE IF page.meta[k] # Absent /\ page.meta[k][1] # Unparseable
                 THEN page.meta[k]
                 ELSE Absent
    IN  f[Len(page.meta)]

\* the regular expression takes at most two decimals of a number
Matched(v) == IF v = Unparseable THEN v ELSE v - (v % 10)

SeqMin(S) == CHOOSE m \in S : \A x \in S : m <= x

\* variant: a value of exactly 50 is dropped
extract_price_from_html_regex_above(rupees) ==
    LET prices == { Matched(rupees[k]) : k \in { j \in 1..Len(rupees) :
                                                   rupees[j] # Unparseable } }
        valid == { q \in prices : q > Rs(50) }
    IN  IF valid # {} THEN Some(SeqMin(valid)) ELSE Absent

extract_price_from_html_regex(rupees) ==
    LET prices == { Matched(rupees[k]) : k \in { j \in 1..Len(rupees) :
                                                   rupees[j] # Unparseable } }
        valid == { q \in prices : q >= Rs(50) }
    IN  IF valid # {} THEN Some(SeqMin(valid)) ELSE Absent

\* variant: the meta tags are asked before the selectors
scrape_price_meta_first(page, platform) ==
    IF Truthy(page.ld_price) THEN page.ld_price
    ELSE IF Truthy(extract_price_from_meta(page))
    THEN extract_price_from_meta(page)
    ELSE IF Truthy(PriceFromSelectors(page, platform))
    THEN PriceFromSelectors(page, platform)
    ELSE IF Truthy(extract_price_from_html_regex(page.rupees))
    THEN extract_price_from_html_regex(page.rupees)
    ELSE Absent

scrape_price(page, platform) ==
    IF Truthy(page.ld_price) THEN page.ld_price
    ELSE IF Truthy(PriceFromSelectors(page, platform))
    THEN PriceFromSelectors(page, platform)
    ELSE IF Truthy(extract_price_from_meta(page))
    THEN extract_price_from_meta(page)
    ELSE IF Truthy(extract_price_from_html_regex(page.rupees))
    THEN extract_price_from_html_regex(page.rupees)
    ELSE Absent

TitleFromSelectors(page, platform) ==
    LET sel == TitleSelectors(platform)
        f[k \in 0..Len(sel)] ==
            IF k = 0 THEN Absent
            ELSE IF f[k - 1] # Absent THEN f[k - 1]
            ELSE IF sel[k] \in DOMAIN page.tags /\ page.tags[sel[k]] # ""
                 THEN Some(page.tags[sel[k]])
                 ELSE Absent
    IN  f[Len(sel)]

TitleSuffixes ==
    { " - Buy ", " : Amazon", " | Amazon", " - Amazon", " Price in India",
      " at Best Price", " Online at" }

\* extract_title_from_page: the title up to the first suffix; the titles of
\* the pages are one word, or one word and a suffix
extract_title_from_page(page) ==
    IF page.title = <<>> \/ page.title[1] \in TitleSuffixes \/ page.title[1] = ""
    THEN Absent
    ELSE Some(page.title[1])

scrape_title(page, platform) ==
    IF TruthyTitle(page.ld_title) THEN page.ld_title
    ELSE IF TitleFromSelectors(page, platform) # Absent
    THEN TitleFromSelectors(page, platform)
    ELSE IF TruthyTitle(page.og_title) THEN page.og_title
    ELSE extract_title_from_page(page)

\* what requests.get and raise_for_status make of the request
NotRequested == [kind |-> "not_requested", status |-> 0, page |-> <<>>]
TransportError == [kind |-> "exception", status |-> 0, page |-> <<>>]
Response(status, page) == [kind |-> "response", status |-> status, page |-> <<page>>]

\* raise_for_status raises for 4xx and 5xx
RaisesForStatus(status) == status >= 400

\* variant: the page of an error status is parsed
scrape_product_info_any_status(url, resp) ==
    IF detect_platform(url) = "unknown" THEN NoInfo
    ELSE IF resp.kind # "response" THEN NoInfo
    ELSE Info(scrape_title(resp.page[1], detect_platform(url)),
              scrape_price(resp.page[1], detect_platform(url)))

\* scrape_product_info, resp being what the network answers if it is asked
scrape_product_info(url, resp) ==
    IF detect_platform(url) = "unknown" THEN NoInfo
    ELSE IF resp.kind # "response" \/ RaisesForStatus(resp.status) THEN NoInfo
    ELSE Info(scrape_title(resp.page[1], detect_platform(url)),
              scrape_price(resp.page[1], detect_platform(url)))

\* scrape_product_info reaches requests.get
RequestsPage(url) == detect_platform(url) # "unknown"

\* test_scraping, run once on one URL: the result printed for it
test_scraping(url, resp) ==
    /\ pc = "idle"
    /\ printed = <<>>
    /\ resp = NotRequested <=> ~RequestsPage(url)
    /\ printed' = << [url |-> url, resp |-> resp,
                      info |-> scrape_product_info(url, resp)] >>
    /\ UNCHANGED <<rows, history, pc, locals, log, nfaults, reply, web, answered>>

-----------------------------------------------------------------------------
(* Specifications *)

\* Spec: the watchlist commands and the cycle, one invocation at a time, from
\* the empty watchlist.  Commands are explored while a cycle can still follow.
MoreCycles == Len(history) < MaxHist

AddStep ==
    /\ MoreCycles
    /\ \E url \in URLs, t \in { Some(x) : x \in AddTargets }, info \in AddResults :
        handle_add_product(url, t, info)

RemoveStep == MoreCycles /\ \E idx \in 1..Len(rows) : Remove(idx)

RemoveAllStep == MoreCycles /\ RemoveAll

PauseStep == MoreCycles /\ \E idx \in 1..Len(rows) : Pause(idx)

ResumeStep == MoreCycles /\ \E idx \in 1..Len(rows) : Resume(idx)

CheckStep ==
    /\ Len(history) + Len(rows) <= MaxHist
    /\ \E res \in [1..Len(rows) -> CycleResults(Prices) \cup {NotCalled}] :
        \E bad \in SUBSET LoopWrites(rows, res) :
            phase2_check_prices(res, bad) /\ nfaults' <= MaxFaults

NotifyStep ==
    \E bad \in SUBSET AlertWrites(alerts), sendOK \in BOOLEAN :
        phase3_notify(bad, sendOK) /\ nfaults' <= MaxFaults

ReturnStep == Return(FALSE)

Next ==
    \/ AddStep
    \/ RemoveStep
    \/ RemoveAllStep
    \/ PauseStep
    \/ ResumeStep
    \/ CheckStep
    \/ NotifyStep
    \/ ReturnStep

Spec == Init /\ [][Next]_vars

\* SpecLaw: one entry with target 1000, as add leaves it, and MaxCycles cycles
\* over it.  Every extraction yields a price of LawPrices; the store writes
\* that may fail are those of Last_Alerted.
InitLaw ==
    /\ \E info \in AddResults :
          rows = << NewRow(<<"amazon", "/a">>, Some(Rs(1000)), info) >>
    /\ history = <<>>
    /\ pc = "idle"
    /\ all_rows = <<>>
    /\ hist0 = 0
    /\ scraped = <<>>
    /\ alerts = <<>>
    /\ changes = <<>>
    /\ checked = 0
    /\ total = 0
    /\ failed = {}
    /\ message = Absent
    /\ delivered = FALSE
    /\ log = <<>>
    /\ nfaults = 0
    /\ reply = <<>>
    /\ printed = <<>>
    /\ requests = <<>>
    /\ last_update_id = 0
    /\ inbox = <<>>
    /\ applied = <<>>
    /\ secret = ""
    /\ answered = NoResponse

LawCheckStep ==
    /\ Len(log) < MaxCycles
    /\ \E res \in [1..Len(rows) -> { Info(Absent, Some(x)) : x \in LawPrices }] :
        \E bad \in SUBSET { w \in LoopWrites(rows, res) : w[2] = "clear" } :
            phase2_check_prices(res, bad) /\ nfaults' <= MaxFaults

LawNotifyStep ==
    \E bad \in SUBSET AlertWrites(alerts) :
        phase3_notify(bad, TRUE) /\ nfaults' <= MaxFaults

LawReturnStep == Return(TRUE)

NextLaw ==
    \/ LawCheckStep
    \/ LawNotifyStep
    \/ LawReturnStep

SpecLaw == InitLaw /\ [][NextLaw]_vars

\* SpecObs: one entry with target 1000 and a few cycles over it, each yielding
\* a price of ObsPrices; the Current_Price and Last_Alerted writes may fail.
ObsPrices == {Rs(850), 900002, 1000004, Rs(1200)}

ObsCheckStep ==
    /\ Len(history) < MaxHist
    /\ \E res \in [1..Len(rows) -> { Info(Absent, Some(x)) : x \in ObsPrices }] :
        \E bad \in SUBSET { w \in LoopWrites(rows, res) : w[2] # "history" } :
            phase2_check_prices(res, bad) /\ nfaults' <= MaxFaults

ObsNotifyStep ==
    \E bad \in SUBSET AlertWrites(alerts) :
        phase3_notify(bad, TRUE) /\ nfaults' <= MaxFaults

ObsReturnStep == Return(TRUE)

NextObs ==
    \/ ObsCheckStep
    \/ ObsNotifyStep
    \/ ObsReturnStep

SpecObs == InitLaw /\ [][NextObs]_vars

-----------------------------------------------------------------------------
(* Command messages and their answers: process_single_message (one message,  *)
(* webhook) and phase1_process_commands (a batch of messages, main)          *)

\* a message as the parsers read it: a detected URL with its optional target
\* and what scrape_product_info will return for it, or an indexed command
AddMsg(url, target_price, info) ==
    [cmd |-> "add", idx |-> 0, url |-> url, target |-> target_price, info |-> info]

IdxMsg(cmd, idx, new_price) ==
    [cmd |-> cmd, idx |-> idx, url |-> <<>>, target |-> new_price, info |-> NotCalled]

\* the message with what the user is told; count is the number of products
\* the answer quotes, fetched whether scrape_product_info was called
Answer(m, outcome, count, fetched) ==
    [cmd |-> m.cmd, idx |-> m.idx, url |-> m.url, target |-> m.target,
     info |-> m.info, outcome |-> outcome, count |-> count, fetched |-> fetched]

\* idx < 1 or idx > data_count
\* variant: the last entry cannot be named
InvalidIndexExcludesLast(rs, idx) == idx < 1 \/ idx >= Len(rs)

InvalidIndex(rs, idx) == idx < 1 \/ idx > Len(rs)

\* matches[-10:]
HistoryLimit == 10

\* /history N: the rows of Price_History whose Product column is the name of
\* entry N, the last HistoryLimit of them, newest first
HistoryShown(rs, hist, idx) ==
    LET product_name == rs[idx].name
        matches == SelectSeq(hist, LAMBDA r : r.name = product_name)
        recent == IF Len(matches) > HistoryLimit
                  THEN SubSeq(matches, Len(matches) - HistoryLimit + 1, Len(matches))
                  ELSE matches
    IN  [k \in 1..Len(recent) |-> recent[Len(recent) + 1 - k]]

\* the rows after a message and the answer to it; hist is Price_History
Handle(rs, hist, m) ==
    IF m.cmd = "add" THEN
        IF detect_platform(m.url) = "unknown"
        THEN [rows |-> rs, reply |-> Answer(m, "ignored", 0, FALSE)]
        ELSE IF is_duplicate_url(rs, m.url)
        THEN [rows |-> rs, reply |-> Answer(m, "duplicate", 0, FALSE)]
        ELSE [rows |-> Append(rs, NewRow(m.url, m.target, m.info)),
              reply |-> Answer(m, "added", 0, TRUE)]
    ELSE IF m.cmd = "remove_all" THEN
        IF Len(rs) <= 0
        THEN [rows |-> rs, reply |-> Answer(m, "already_empty", 0, FALSE)]
        ELSE [rows |-> DataRows(ClearSheet(Sheet(rs))),
              reply |-> Answer(m, "cleared", Len(rs), FALSE)]
    ELSE IF InvalidIndex(rs, m.idx)
    THEN [rows |-> rs, reply |-> Answer(m, "invalid_index", Len(rs), FALSE)]
    ELSE IF m.cmd = "remove"
    THEN [rows |-> DeleteRow(rs, m.idx), reply |-> Answer(m, "removed", 0, FALSE)]
    ELSE IF m.cmd = "edit"
    THEN [rows |-> [rs EXCEPT ![m.idx].target = m.target[1]],
          reply |-> Answer(m, "updated", 0, FALSE)]
    ELSE IF m.cmd = "pause"
    THEN [rows |-> [rs EXCEPT ![m.idx].status = "paused"],
          reply |-> Answer(m, "paused", 0, FALSE)]
    ELSE IF m.cmd = "resume"
    THEN [rows |-> [rs EXCEPT ![m.idx].status = "active"],
          reply |-> Answer(m, "resumed", 0, FALSE)]
    ELSE IF HistoryShown(rs, hist, m.idx) # <<>>
    THEN [rows |-> rs, reply |-> Answer(m, "history", 0, FALSE)]
    ELSE [rows |-> rs, reply |-> Answer(m, "no_history", 0, FALSE)]

\* process_single_message(text, chat_id, products_ws, history_ws) on the sheet
\* as it is when the request is served
ProcessMessage(m) ==
    /\ rows' = Handle(rows, history, m).rows
    /\ reply' = << Handle(rows, history, m).reply >>
    /\ UNCHANGED <<history, pc, locals, log, nfaults, printed, web>>

\* webhook: one message, answered at once
process_single_message(m) ==
    /\ pc = "idle"
    /\ ProcessMessage(m)
    /\ UNCHANGED answered

\* main: the pending messages, in the order received, each on the rows the
\* one before left
phase1_process_commands(ms) ==
    LET f[k \in 0..Len(ms)] ==
            IF k = 0 THEN [rows |-> rows, replies |-> <<>>]
            ELSE LET h == Handle(f[k - 1].rows, history, ms[k])
                 IN  [rows |-> h.rows, replies |-> Append(f[k - 1].replies, h.reply)]
    IN  /\ pc = "idle"
        /\ Len(ms) > 0
        /\ rows' = f[Len(ms)].rows
        /\ reply' = f[Len(ms)].replies
        /\ UNCHANGED <<history, pc, locals, log, nfaults, printed, web, answered>>

\* what phase 1 hands to phase 3: the return values of handle_add_product,
\* in the order of the messages
AddedMessages(replies) ==
    LET f[k \in 0..Len(replies)] ==
            IF k = 0 THEN <<>>
            ELSE IF replies[k].cmd = "add" /\ replies[k].outcome # "ignored"
                 THEN Append(f[k - 1], replies[k])
                 ELSE f[k - 1]
    IN  f[Len(replies)]

\* main, phase 1: the pending messages (none, if there are no updates)
main_phase1(ms) ==
    LET f[k \in 0..Len(ms)] ==
            IF k = 0 THEN [rows |-> rows, replies |-> <<>>]
            ELSE LET h == Handle(f[k - 1].rows, history, ms[k])
                 IN  [rows |-> h.rows, replies |-> Append(f[k - 1].replies, h.reply)]
    IN  /\ pc = "idle"
        /\ pc' = "main_check"
        /\ rows' = f[Len(ms)].rows
        /\ reply' = f[Len(ms)].replies
        /\ UNCHANGED <<history, locals, log, nfaults, printed, web, answered>>

\* main, phase 2
main_phase2(res, bad) ==
    /\ pc = "main_check"
    /\ pc' = "main_notify"
    /\ CheckPrices(res, bad)
    /\ UNCHANGED answered

\* main, phase 3
main_phase3(bad, sendOK) ==
    /\ pc = "main_notify"
    /\ pc' = "done"
    /\ Notify(AddedMessages(reply), bad, sendOK)

\* SpecCmd: adding and removing, one invocation at a time, by single messages
\* (webhook) or batches of two (main).
CmdURLs ==
    { <<"amazon", "/a">>, <<"amazon", "/a", "?", "x">>,
      <<"flipkart", "/f", "?", "x">>, <<"ebay", "/e">> }

CmdSeedPrices == {Rs(10), Rs(2000)}

CmdInfos ==
    {NoInfo, Info(Absent, Absent)}
    \cup { Info(Some(t), Some(p)) : t \in Titles, p \in CmdSeedPrices }

AddMsgs ==
    { AddMsg(url, t, info) :
        url \in CmdURLs, t \in {Absent} \cup { Some(x) : x \in AddTargets },
        info \in CmdInfos }

RemoveMsgs(n) ==
    { IdxMsg("remove", i, Absent) : i \in 1..n } \cup { IdxMsg("remove_all", 0, Absent) }

InstantStep ==
    \E m \in AddMsgs \cup RemoveMsgs(Len(rows)) : process_single_message(m)

\* the messages a batch is drawn from
BatchMsgs ==
    { AddMsg(url, Absent, Info(Some(t), Some(Rs(2000)))) :
        url \in CmdURLs, t \in Titles }
    \cup { IdxMsg("remove", 1, Absent) }

BatchStep == \E m1, m2 \in BatchMsgs : phase1_process_commands(<<m1, m2>>)

NextCmd ==
    \/ InstantStep
    \/ BatchStep

SpecCmd == Init /\ [][NextCmd]_vars

\* SpecIdx: the indexed commands on a watchlist of up to two entries, singly
\* or in batches of two, around a reliable cycle.
IdxAddMsgs ==
    { AddMsg(url, Some(x), Info(Some(t), Some(p))) :
        url \in { u \in CmdURLs : detect_platform(u) # "unknown" },
        x \in AddTargets, t \in Titles, p \in SeedPrices }

IdxMsgs(n) ==
    { IdxMsg("remove", i, Absent) : i \in -1..(n + 1) }
    \cup { IdxMsg(c, i, Absent) :
             c \in {"pause", "resume", "history"}, i \in 0..(n + 1) }
    \cup { IdxMsg("edit", i, Some(x)) : i \in 0..(n + 1), x \in EditTargets }

IdxInstantStep ==
    \E m \in IdxAddMsgs \cup IdxMsgs(Len(rows)) : process_single_message(m)

\* a batch: the first entry is removed, then a command names the last index
\* of the listing as it was before
IdxBatchStep ==
    \E m2 \in { m \in IdxMsgs(Len(rows)) : m.idx = Len(rows) } :
        phase1_process_commands(<< IdxMsg("remove", 1, Absent), m2 >>)

\* one cycle that logs prices, while the history is empty
IdxCheckStep ==
    /\ history = <<>>
    /\ \E res \in [1..Len(rows) ->
                    { Info(Absent, Some(x)) : x \in Prices } \cup {NotCalled}] :
        phase2_check_prices(res, {})

IdxNotifyStep == phase3_notify({}, TRUE)

IdxReturnStep == Return(FALSE)

NextIdx ==
    \/ IdxInstantStep
    \/ IdxBatchStep
    \/ IdxCheckStep
    \/ IdxNotifyStep
    \/ IdxReturnStep

SpecIdx == Init /\ [][NextIdx]_vars

-----------------------------------------------------------------------------
(* SpecIso: cycles over a sheet whose Target_Price cells may have been edited *)
(* by hand, with failing extractions and failing store writes.               *)

IsoAddStep ==
    \E url \in URLs, t \in { Some(x) : x \in AddTargets }, info \in AddResults :
        handle_add_product(url, t, info)

IsoSheetStep == \E idx \in 1..Len(rows) : SheetCellEdited(idx)

IsoPauseStep == \E idx \in 1..Len(rows) : Pause(idx)

IsoResults == CycleResults(Prices) \cup {Raised, NotCalled}

IsoCheckStep ==
    /\ history = <<>>
    /\ \E res \in [1..Len(rows) -> IsoResults] :
        \E bad \in SUBSET LoopWrites(rows, res) :
            phase2_check_prices(res, bad) /\ nfaults' <= MaxFaults

IsoRaiseStep ==
    /\ history = <<>>
    /\ \E res \in [1..Len(rows) -> IsoResults] :
        \E bad \in SUBSET { w \in LoopWrites(rows, res) : ParsesTarget(rows[w[1]]) } :
            phase2_check_prices_raises(res, bad) /\ nfaults' <= MaxFaults

IsoNotifyStep ==
    \E bad \in SUBSET AlertWrites(alerts), sendOK \in BOOLEAN :
        phase3_notify(bad, sendOK) /\ nfaults' <= MaxFaults

IsoReturnStep == Return(FALSE)

IsoAbandonStep == Abandon

NextIso ==
    \/ IsoAddStep
    \/ IsoSheetStep
    \/ IsoPauseStep
    \/ IsoCheckStep
    \/ IsoRaiseStep
    \/ IsoNotifyStep
    \/ IsoReturnStep
    \/ IsoAbandonStep

SpecIso == Init /\ [][NextIso]_vars

-----------------------------------------------------------------------------
(* SpecFetch: cycles whose extractions fail in every way (no page, no price, *)
(* an exception), each phase following the one before as in main and in      *)
(* check_prices_endpoint.                                                    *)

NextFetch ==
    \/ IsoAddStep
    \/ IsoPauseStep
    \/ IsoCheckStep
    \/ IsoNotifyStep
    \/ IsoReturnStep

SpecFetch ==
    /\ Init
    /\ [][NextFetch]_vars
    /\ WF_vars(IsoNotifyStep)
    /\ WF_vars(IsoReturnStep)

-----------------------------------------------------------------------------
(* SpecPage: scrape_product_info on pages of every make, as test_scraping    *)
(* runs it.                                                                  *)

NoTags == [s \in {} |-> <<>>]

PageTags ==
    { NoTags,
      [s \in {"span.a-price-whole"} |-> <<Rs(599)>>],
      [s \in {"span.a-price-whole", "span.a-offscreen"} |->
          IF s = "span.a-price-whole" THEN <<0>> ELSE <<Rs(649), Rs(599)>>],
      [s \in {"span.a-offscreen"} |-> <<>>],
      [s \in {"span#productTitle"} |-> "Jug"],
      [s \in {"div.Nx9bqj"} |-> <<Rs(599)>>],
      [s \in {"div._30jeq3", "div.Nx9bqj"} |->
          IF s = "div._30jeq3" THEN <<Rs(699)>> ELSE <<Rs(599)>>] }

PageLdPrices == {Absent, Some(0), Some(Rs(499))}

PageMetas ==
    { <<Absent, Absent>>, <<Some(Rs(799)), Absent>>,
      <<Some(Unparseable), Some(Rs(799))>>, <<Some(0), Some(Rs(799))>> }

PageRupees ==
    { <<>>, <<Rs(19)>>, <<Rs(19), Rs(1299), Rs(1199)>>, <<Rs(1199), Rs(1299)>>,
      <<Rs(50)>>, <<49999, 50009>>, <<Unparseable, Rs(75)>> }

PageTitles ==
    { [ld |-> Absent, og |-> Absent, title |-> <<>>],
      [ld |-> Some("Kettle"), og |-> Some("Pot"), title |-> <<"Pan">>],
      [ld |-> Some(""), og |-> Absent, title |-> <<"Pan", " - Buy ">>] }

Pages ==
    { [ld_price |-> l, ld_title |-> t.ld, tags |-> g, meta |-> m,
       og_title |-> t.og, title |-> t.title, rupees |-> r] :
        l \in PageLdPrices, t \in PageTitles, g \in PageTags, m \in PageMetas,
        r \in PageRupees }

PageURLs ==
    { <<"amazon", "/a">>, <<"AMAZON", "/a">>, <<"flipkart", "/f", "?", "x">>,
      <<"Flipkart", "/f">>, <<"flipkart", "/", "amazon">>, <<"myntra", "/m">>,
      <<"MYNTRA", "/", "kart">> }

\* the pages that come with a status other than 200
StatusPages ==
    { q \in Pages : q.ld_price = Some(Rs(499)) /\ q.rupees = <<>> /\ q.tags = NoTags }

\* the statuses requests.get hands back without following them up
Statuses == {200, 300, 404, 503}

Responses ==
    {NotRequested, TransportError}
    \cup { Response(st, p) : st \in Statuses \ {200}, p \in StatusPages }
    \cup { Response(200, p) : p \in Pages }

TestStep == \E url \in PageURLs, resp \in Responses : test_scraping(url, resp)

NextPage == TestStep

SpecPage == Init /\ [][NextPage]_vars

-----------------------------------------------------------------------------
(* SpecLd: pages whose only price is in their JSON-LD blocks.               *)

LdItems ==
    { LdItem(FALSE, "", NoOffers),
      LdItem(TRUE, "BreadcrumbList", NoOffers),
      LdItem(TRUE, "Product", NoOffers),
      LdItem(TRUE, "Product", Offers("dict", Num(Rs(499)), NoValue)),
      LdItem(TRUE, "Offer", Offers("list", Num(0), Str(Rs(599)))),
      LdItem(TRUE, "Product", Offers("dict", Str(Unparseable), NoValue)),
      LdItem(TRUE, "Product", Offers("dict", Str(0), NoValue)),
      LdItem(TRUE, "WebPage", Offers("text", NoValue, NoValue)) }

LdBlocks ==
    { Malformed } \cup { <<i>> : i \in LdItems }
    \cup { <<i, j>> : i \in LdItems, j \in LdItems }

LdDocs ==
    { <<>> } \cup { <<b>> : b \in LdBlocks }
    \cup { <<b, c>> : b \in LdBlocks, c \in LdBlocks }

\* the page with these blocks and no other trace of a price
LdPage(blocks) ==
    [ld |-> blocks, ld_price |-> extract_price_from_json_ld(blocks),
     ld_title |-> Absent, tags |-> NoTags, meta |-> <<Absent, Absent>>,
     og_title |-> Absent, title |-> <<"Pan">>, rupees |-> <<>>]

LdTestStep ==
    \E blocks \in LdDocs :
        test_scraping(<<"amazon", "/a">>, Response(200, LdPage(blocks)))

NextLd == LdTestStep

SpecLd == Init /\ [][NextLd]_vars

-----------------------------------------------------------------------------
(* SpecMain: invocations of main, one after the other: the pending messages, *)
(* the cycle, the digest.                                                    *)

MainMsgs ==
    { AddMsg(url, Some(x), Info(Some(t), Some(p))) :
        url \in { <<"amazon", "/a">>, <<"amazon", "/a", "?", "x">>,
                  <<"flipkart", "/f", "?", "x">> },
        x \in AddTargets, t \in Titles, p \in SeedPrices }
    \cup { IdxMsg("remove", 1, Absent), IdxMsg("pause", 1, Absent) }

\* the updates one invocation finds: none, one or two
MainBatches ==
    { <<>> } \cup { <<m>> : m \in MainMsgs }
    \cup { <<m1, m2>> : m1 \in MainMsgs, m2 \in MainMsgs }

MainCommandStep ==
    /\ Len(history) < MaxHist
    /\ \E ms \in MainBatches : main_phase1(ms)

MainCheckStep ==
    \E res \in [1..Len(rows) ->
                  { Info(Absent, Some(x)) : x \in Prices } \cup {NoInfo, NotCalled}] :
        main_phase2(res, {})

MainNotifyStep ==
    \E sendOK \in BOOLEAN : main_phase3({}, sendOK) /\ nfaults' <= MaxFaults

MainReturnStep == Return(FALSE)

NextMain ==
    \/ MainCommandStep
    \/ MainCheckStep
    \/ MainNotifyStep
    \/ MainReturnStep

SpecMain == Init /\ [][NextMain]_vars

-----------------------------------------------------------------------------
(* SpecRace: a cycle of check_prices_endpoint or main while the webhook      *)
(* serves instant-mode messages.  The cycle reads the sheet once             *)
(* (get_all_values), then writes cell by cell with update_cell(i, ...), i     *)
(* being the position of the row in what it read; nothing keeps a webhook    *)
(* request from being served between the read and a write.  The writes of    *)
(* the loop are taken together, and so are those of phase3_notify.           *)

\* update_cell(i, 4, ...) and update_cell(i, 5, "") of the loop for the row
\* read at position k, on the row sheet_row now at that position
RowAfterCellWrites(sheet_row, r, res) ==
    IF ~Checked(r, res) THEN sheet_row
    ELSE LET live_price == res.price[1]
             r1 == [sheet_row EXCEPT !.price = Some(Round2(live_price))]
         IN  IF Clears(r, live_price) THEN [r1 EXCEPT !.alerted = Absent] ELSE r1

\* phase2_check_prices: all_rows = products_ws.get_all_values()
phase2_read ==
    /\ pc = "idle"
    /\ pc' = "loop"
    /\ \A k \in 1..Len(rows) : ParsesTarget(rows[k])
    /\ total' = Len(rows)
    /\ all_rows' = rows
    /\ hist0' = Len(history)
    /\ UNCHANGED <<rows, history, scraped, alerts, changes, checked, failed,
                   message, delivered, log, nfaults, reply, printed, web, answered>>

\* phase2_check_prices: the loop over all_rows; a write to a position the
\* sheet no longer has falls on an empty row below the entries
phase2_loop(res) ==
    /\ pc = "loop"
    /\ pc' = "notify"
    /\ \A k \in 1..Len(all_rows) : (res[k] = NotCalled) <=> ~Active(all_rows[k])
    /\ scraped' = res
    /\ rows' = [k \in 1..Len(rows) |->
                  IF k <= Len(all_rows)
                  THEN RowAfterCellWrites(rows[k], all_rows[k], res[k])
                  ELSE rows[k]]
    /\ history' = history \o AppendedHistory(all_rows, res, {})
    /\ alerts' = AlertList(all_rows, res)
    /\ changes' = ChangeList(all_rows, res)
    /\ checked' = Cardinality({ k \in 1..Len(all_rows) : Checked(all_rows[k], res[k]) })
    /\ UNCHANGED <<all_rows, hist0, total, failed, message, delivered, log,
                   nfaults, reply, printed, web, answered>>

RaceMsgs ==
    { AddMsg(url, Some(x), Info(Some(t), Some(p))) :
        url \in URLs, x \in AddTargets, t \in Titles, p \in SeedPrices }
    \cup { IdxMsg("remove", 1, Absent) }

\* a webhook request, served whatever the cycle is doing
RaceInstantStep ==
    /\ Len(history) < MaxHist
    /\ pc \in {"idle", "loop", "notify"}
    /\ \E m \in RaceMsgs : ProcessMessage(m)
    /\ UNCHANGED answered

RaceReadStep == Len(history) + Len(rows) <= MaxHist /\ phase2_read

RaceLoopStep ==
    \E res \in [1..Len(all_rows) ->
                  { Info(Absent, Some(x)) : x \in Prices } \cup {NotCalled}] :
        phase2_loop(res)

RaceNotifyStep == phase3_notify({}, TRUE)

RaceReturnStep == Return(FALSE)

NextRace ==
    \/ RaceInstantStep
    \/ RaceReadStep
    \/ RaceLoopStep
    \/ RaceNotifyStep
    \/ RaceReturnStep

SpecRace == Init /\ [][NextRace]_vars

-----------------------------------------------------------------------------
(* SpecAdds: add requests served by the webhook at the same time (Flask      *)
(* serves each request in a thread of its own, Telegram delivers over several *)
(* connections).  handle_add_product reads the sheet for the duplicate check, *)
(* fetches the page, then appends the row: three calls with nothing held      *)
(* between them.                                                             *)

\* webhook, process_single_message, handle_add_product up to the return of
\* is_duplicate_url
webhook_add_check(m) ==
    /\ detect_platform(m.url) # "unknown"
    /\ IF is_duplicate_url(rows, m.url)
       THEN /\ reply' = << Answer(m, "duplicate", 0, FALSE) >>
            /\ UNCHANGED requests
       ELSE /\ requests' = Append(requests, [m |-> m, at |-> "scrape"])
            /\ UNCHANGED reply
    /\ UNCHANGED <<rows, history, pc, locals, log, nfaults, printed,
                   last_update_id, inbox, applied, secret, answered>>

\* handle_add_product: info = scrape_product_info(url)
webhook_add_scrape(i, info) ==
    /\ i \in 1..Len(requests)
    /\ requests[i].at = "scrape"
    /\ requests' = [requests EXCEPT ![i] =
                        [m |-> [requests[i].m EXCEPT !.info = info], at |-> "append"]]
    /\ UNCHANGED <<rows, history, pc, locals, log, nfaults, reply, printed,
                   last_update_id, inbox, applied, secret, answered>>

\* handle_add_product: products_ws.append_row(...), and the confirmation
webhook_add_append(i) ==
    /\ i \in 1..Len(requests)
    /\ requests[i].at = "append"
    /\ LET m == requests[i].m
       IN  /\ rows' = Append(rows, NewRow(m.url, m.target, m.info))
           /\ reply' = << Answer(m, "added", 0, TRUE) >>
    /\ requests' = DeleteRow(requests, i)
    /\ UNCHANGED <<history, pc, locals, log, nfaults, printed,
                   last_update_id, inbox, applied, secret, answered>>

AddsURLs ==
    { <<"amazon", "/a">>, <<"amazon", "/a", "?", "x">>, <<"flipkart", "/f">> }

AddsArriveStep ==
    /\ Len(requests) < MaxRequests
    /\ \E url \in AddsURLs, x \in AddTargets :
          webhook_add_check(AddMsg(url, Some(x), NotCalled))

AddsScrapeStep ==
    \E i \in 1..Len(requests) :
        \E info \in {NoInfo} \cup { Info(Some(t), Some(p)) : t \in Titles, p \in SeedPrices } :
            webhook_add_scrape(i, info)

AddsAppendStep == \E i \in 1..Len(requests) : webhook_add_append(i)

NextAdds ==
    \/ AddsArriveStep
    \/ AddsScrapeStep
    \/ AddsAppendStep

SpecAdds == Init /\ [][NextAdds]_vars

-----------------------------------------------------------------------------
(* SpecUpd: invocations of main that poll Telegram.  Telegram numbers the    *)
(* updates in the order received and getUpdates(offset) returns those whose   *)
(* update_id is offset or more; the offset is one more than Settings!A1,      *)
(* which phase1_process_commands writes after its loop.                      *)

\* the user sends a message to the bot
telegram_receives(m) ==
    /\ inbox' = Append(inbox, [update_id |-> Len(inbox) + 1, m |-> m])
    /\ UNCHANGED <<rows, history, pc, locals, log, nfaults, reply, printed,
                   requests, last_update_id, applied, secret, answered>>

\* get_telegram_updates(last_update_id), the request succeeding
get_telegram_updates(last) ==
    SelectSeq(inbox, LAMBDA u : u.update_id >= last + 1)

\* new_last_id after the loop over updates
NewLastId(last, updates) ==
    LET f[k \in 0..Len(updates)] ==
            IF k = 0 THEN last
            ELSE IF updates[k].update_id > f[k - 1] THEN updates[k].update_id
                 ELSE f[k - 1]
    IN  f[Len(updates)]

\* the answers of the commands that write to the Products worksheet
Applied(a) ==
    a.outcome \in {"added", "removed", "cleared", "updated", "paused", "resumed"}

\* the loop of phase1_process_commands over the first n of the updates
AfterUpdates(updates, n) ==
    LET f[k \in 0..n] ==
            IF k = 0 THEN [rows |-> rows, replies |-> <<>>, ids |-> <<>>]
            ELSE LET h == Handle(f[k - 1].rows, history, updates[k].m)
                 IN  [rows |-> h.rows,
                      replies |-> Append(f[k - 1].replies, h.reply),
                      ids |-> IF Applied(h.reply)
                              THEN Append(f[k - 1].ids, updates[k].update_id)
                              ELSE f[k - 1].ids]
    IN  f[n]

\* main, phase 1: the updates above the stored ID are fetched and handled in
\* order, then the largest ID is stored (no updates: nothing is written)
main_phase1_polls ==
    LET updates == get_telegram_updates(last_update_id)
        out == AfterUpdates(updates, Len(updates))
    IN  /\ pc = "idle"
        /\ pc' = "main_check"
        /\ rows' = out.rows
        /\ reply' = out.replies
        /\ applied' = applied \o out.ids
        /\ last_update_id' = NewLastId(last_update_id, updates)
        /\ UNCHANGED <<history, locals, log, nfaults, printed,
                       requests, inbox, secret, answered>>

\* main, phase 1: a store call made for the k-th update raises (get_all_values,
\* delete_rows, append_row and update_cell are called outside every try); the
\* updates before it have been handled, set_last_update_id is not reached and
\* main ends with the traceback
main_phase1_raises(k) ==
    LET updates == get_telegram_updates(last_update_id)
        out == AfterUpdates(updates, k - 1)
    IN  /\ pc = "idle"
        /\ k \in 1..Len(updates)
        /\ rows' = out.rows
        /\ reply' = out.replies
        /\ applied' = applied \o out.ids
        /\ nfaults' = nfaults + 1
        /\ UNCHANGED <<history, pc, locals, log, printed,
                       requests, last_update_id, inbox, secret, answered>>

UpdMsgs ==
    { AddMsg(<<"amazon", "/a">>, Some(x), Info(Some(t), Some(p))) :
        x \in AddTargets, t \in Titles, p \in SeedPrices }
    \cup { IdxMsg("remove", 1, Absent) }

UpdReceiveStep ==
    /\ pc = "idle"
    /\ Len(inbox) < MaxUpdates
    /\ \E m \in UpdMsgs : telegram_receives(m)

UpdPollStep == Len(history) < MaxHist /\ main_phase1_polls

UpdRaiseStep ==
    \E k \in 1..Len(inbox) : main_phase1_raises(k) /\ nfaults' <= MaxFaults

UpdCheckStep ==
    \E res \in [1..Len(rows) -> { Info(Absent, Some(x)) : x \in Prices }] :
        main_phase2(res, {})

UpdNotifyStep == main_phase3({}, TRUE)

UpdReturnStep == Return(FALSE)

NextUpd ==
    \/ UpdReceiveStep
    \/ UpdPollStep
    \/ UpdRaiseStep
    \/ UpdCheckStep
    \/ UpdNotifyStep
    \/ UpdReturnStep

SpecUpd == Init /\ [][NextUpd]_vars

-----------------------------------------------------------------------------
(* SpecHist: /history on a watchlist of two listings whose title could not   *)
(* be extracted when they were added.  Each listing has a price of its own,  *)
(* so that a row of Price_History tells which listing it was logged for.     *)

HistURLs == { <<"amazon", "/a">>, <<"amazon", "/b">> }

\* the price the page of a listing shows
ListedPrice(url) == IF url = <<"amazon", "/a">> THEN Rs(900) ELSE Rs(1200)

HistMsgs(n) ==
    { AddMsg(url, Some(x), info) :
        url \in HistURLs, x \in AddTargets, info \in {NoInfo, Info(Absent, Absent)} }
    \cup { IdxMsg("history", i, Absent) : i \in 1..n }
    \cup { IdxMsg("remove", i, Absent) : i \in 1..n }

HistInstantStep ==
    /\ Len(history) < MaxHist + 2
    /\ \E m \in HistMsgs(Len(rows)) : process_single_message(m)

HistCheckStep ==
    /\ Len(history) < MaxHist + 2
    /\ phase2_check_prices(
           [k \in 1..Len(rows) |-> Info(Absent, Some(ListedPrice(rows[k].url)))], {})

HistNotifyStep == phase3_notify({}, TRUE)

HistReturnStep == Return(FALSE)

NextHist ==
    \/ HistInstantStep
    \/ HistCheckStep
    \/ HistNotifyStep
    \/ HistReturnStep

SpecHist == Init /\ [][NextHist]_vars

-----------------------------------------------------------------------------
(* SpecHook: the two routes of the Flask app behind WEBHOOK_SECRET, one       *)
(* request at a time.                                                        *)

\* variant: any token that is not empty is let in
TokenAcceptedIfAny(token) == secret = "" \/ token # ""

\* webhook: `if WEBHOOK_SECRET:` the header must be the secret
TokenAccepted(token) == secret = "" \/ token = secret

\* check_prices_endpoint: `if WEBHOOK_SECRET:` the header must be
\* f"Bearer {WEBHOOK_SECRET}"
BearerAccepted(auth) == secret = "" \/ auth = "Bearer " \o secret

\* POST /webhook with the header X-Telegram-Bot-Api-Secret-Token (token, ""
\* when it is missing) and a message
webhook(token, m) ==
    /\ pc = "idle"
    /\ IF ~TokenAccepted(token)
       THEN /\ answered' = [route |-> "/webhook", status |-> 403, token |-> token]
            /\ UNCHANGED <<rows, history, pc, locals, log, nfaults, reply,
                           printed, web>>
       ELSE /\ answered' = [route |-> "/webhook", status |-> 200, token |-> token]
            /\ ProcessMessage(m)

\* POST /check-prices with the header Authorization (auth, "" when it is
\* missing): 403, or the cycle is started
check_prices_endpoint(auth, res, bad) ==
    /\ pc = "idle"
    /\ IF ~BearerAccepted(auth)
       THEN /\ answered' = [route |-> "/check-prices", status |-> 403, token |-> auth]
            /\ UNCHANGED <<rows, history, pc, locals, log, nfaults, reply,
                           printed, web>>
       ELSE /\ answered' = [route |-> "/check-prices", status |-> 0, token |-> auth]
            /\ pc' = "notify"
            /\ CheckPrices(res, bad)

\* check_prices_endpoint: return jsonify({"ok": True, ...})
check_prices_returns ==
    /\ Finish(FALSE)
    /\ answered' = [answered EXCEPT !.status = 200]

Secrets == {"", "s3cret"}

InitHook ==
    /\ rows = <<>>
    /\ history = <<>>
    /\ pc = "idle"
    /\ all_rows = <<>>
    /\ hist0 = 0
    /\ scraped = <<>>
    /\ alerts = <<>>
    /\ changes = <<>>
    /\ checked = 0
    /\ total = 0
    /\ failed = {}
    /\ message = Absent
    /\ delivered = FALSE
    /\ log = <<>>
    /\ nfaults = 0
    /\ reply = <<>>
    /\ printed = <<>>
    /\ requests = <<>>
    /\ last_update_id = 0
    /\ inbox = <<>>
    /\ applied = <<>>
    /\ secret \in Secrets
    /\ answered = NoResponse

HookTokens == {"", "s3cret", "guess"}

HookBearers == {"", "s3cret", "Bearer s3cret", "Bearer guess"}

HookMsgs ==
    { AddMsg(url, Some(x), Info(Some(t), Some(p))) :
        url \in URLs, x \in AddTargets, t \in Titles, p \in SeedPrices }
    \cup { IdxMsg("remove", 1, Absent) }

HookWebhookStep ==
    /\ Len(history) < MaxHist
    /\ \E token \in HookTokens, m \in HookMsgs : webhook(token, m)

HookCheckStep ==
    /\ Len(history) + Len(rows) <= MaxHist
    /\ \E auth \in HookBearers :
        \E res \in [1..Len(rows) -> { Info(Absent, Some(x)) : x \in Prices }] :
            check_prices_endpoint(auth, res, {})

HookNotifyStep == phase3_notify({}, TRUE)

HookReturnStep == check_prices_returns

NextHook ==
    \/ HookWebhookStep
    \/ HookCheckStep
    \/ HookNotifyStep
    \/ HookReturnStep

SpecHook == InitHook /\ [][NextHook]_vars

-----------------------------------------------------------------------------
(* SpecSeed: links added while their price is under or over the target       *)
(* given with them, and the cycles that follow.                              *)

SeedMsgs ==
    { AddMsg(url, Some(x), info) :
        url \in URLs, x \in AddTargets,
        info \in {NoInfo} \cup { Info(Some(t), Some(p)) :
                                    t \in Titles, p \in {Rs(900), Rs(1200)} } }
    \cup { IdxMsg("remove", 1, Absent), IdxMsg("pause", 1, Absent) }

SeedInstantStep ==
    /\ Len(history) < MaxHist
    /\ \E m \in SeedMsgs : process_single_message(m)

SeedCheckStep ==
    /\ Len(history) + Len(rows) <= MaxHist
    /\ \E res \in [1..Len(rows) ->
                    { Info(Absent, Some(x)) : x \in {Rs(900), Rs(1200)} }
                    \cup {NoInfo, NotCalled}] :
        phase2_check_prices(res, {})

SeedNotifyStep == phase3_notify({}, TRUE)

SeedReturnStep == Return(FALSE)

NextSeed ==
    \/ SeedInstantStep
    \/ SeedCheckStep
    \/ SeedNotifyStep
    \/ SeedReturnStep

SpecSeed == Init /\ [][NextSeed]_vars

-----------------------------------------------------------------------------
(* Vocabulary of the properties *)

InCycle == pc \in {"notify", "done"}

\* row k of the cycle was active and its price was extracted
RowChecked(k) == Checked(all_rows[k], scraped[k])

Live(k) == scraped[k].price[1]

InAlerts(k) == \E j \in 1..Len(alerts) : alerts[j].row_index = k + 1

\* the Price_History rows this cycle appended
AppendedNow == SubSeq(history, hist0 + 1, Len(history))

IsPrefix(s, t) == Len(s) <= Len(t) /\ SubSeq(t, 1, Len(s)) = s

\* the k-th smallest element of a set of numbers
Nth(S, j) == CHOOSE k \in S : Cardinality({ i \in S : i <= k }) = j

-----------------------------------------------------------------------------
(* C1: re-trigger law (SpecLaw) *)

Script == << Rs(1200), Rs(900), Rs(900), Rs(850), Rs(1200), Rs(900) >>
ScriptAlerts == << FALSE, TRUE, FALSE, TRUE, FALSE, TRUE >>

\* the six cycles after the first s cycles observed the script, target 1000
FollowsScript(s) ==
    /\ s + Len(Script) <= Len(log)
    /\ \A k \in 1..Len(Script) :
          log[s + k].price = Some(Script[k]) /\ log[s + k].target = Rs(1000)

AlertsAsScript(s) == \A k \in 1..Len(Script) : log[s + k].alerted = ScriptAlerts[k]

\* no store write failed in cycles a..b
WritesOK(a, b) == \A j \in a..b : log[j].clean

-----------------------------------------------------------------------------
(* C2: dedup idempotence (SpecLaw) *)

\* cycles a..b all observed the price of cycle a, at or below target
SamePrice(a, b) ==
    \A j \in a..b : log[j].price = log[a].price /\ log[j].price[1] <= log[j].target

\* cycle a is the first to observe its price: the first cycle of the entry, or
\* the one before observed another price
FirstOfRun(a) == a = 1 \/ log[a - 1].price # log[a].price

-----------------------------------------------------------------------------
(* C3: alert decision (Spec) *)

\* C3: a checked entry is put in the alert list exactly when its live price is
\* at or below its target and differs, formatted to two decimals, from the
\* Last_Alerted the cycle read; it is listed at most once.
C3_AlertDecision ==
    InCycle =>
        /\ \A k \in 1..Len(all_rows) :
              RowChecked(k) =>
                  (InAlerts(k) <=>
                      /\ Live(k) <= all_rows[k].target
                      /\ all_rows[k].alerted # Some(Round2(Live(k))))
        /\ Len(alerts) = Cardinality({ k \in 1..Len(all_rows) : InAlerts(k) })

\* an entry alerted at 900.00 observes 900.002 and is not alerted again
C3_Witness ==
    /\ InCycle
    /\ \E k \in 1..Len(all_rows) :
          /\ RowChecked(k)
          /\ Live(k) = 900002
          /\ all_rows[k].alerted = Some(Rs(900))
          /\ ~InAlerts(k)

-----------------------------------------------------------------------------
(* C4: Last_Alerted after an alert (Spec) *)

\* C4 as stated: when the cycle is complete, the Last_Alerted of every entry
\* of the alert list is the live price that triggered the alert (as the sheet
\* holds it, at two decimals).
C4_AlertedIsLivePrice ==
    pc = "done" =>
        \A k \in 1..Len(all_rows) :
            InAlerts(k) => rows[k].alerted = Some(Round2(Live(k)))

\* C4 amended: the same, unless the Last_Alerted write of phase 3 raised for
\* that entry; the exception is swallowed and the cell keeps what it held.
C4_AlertedIsLivePriceUnlessWriteFails ==
    pc = "done" =>
        \A k \in 1..Len(all_rows) :
            InAlerts(k) =>
                rows[k].alerted = IF <<k, "alerted">> \in failed
                                  THEN all_rows[k].alerted
                                  ELSE Some(Round2(Live(k)))

\* the second entry of the sheet was alerted at 900.002 and holds 900.00
C4_Witness ==
    /\ pc = "done"
    /\ Len(all_rows) = 2
    /\ InAlerts(2)
    /\ Live(2) = 900002
    /\ all_rows[2].alerted = Absent
    /\ rows[2].alerted = Some(Rs(900))

-----------------------------------------------------------------------------
(* C5: Last_Alerted cleared above target (Spec) *)

\* C5 as stated: a checked entry whose live price is above target and whose
\* Last_Alerted was set has it empty after the cycle.
C5_ClearedAboveTarget ==
    InCycle =>
        \A k \in 1..Len(all_rows) :
            RowChecked(k) /\ Live(k) > all_rows[k].target
                          /\ all_rows[k].alerted # Absent
                => rows[k].alerted = Absent

\* C5 amended: the same, unless the clearing write raised; the exception is
\* swallowed and Last_Alerted keeps its value.
C5_ClearedAboveTargetUnlessWriteFails ==
    InCycle =>
        \A k \in 1..Len(all_rows) :
            RowChecked(k) /\ Live(k) > all_rows[k].target
                          /\ all_rows[k].alerted # Absent
                => rows[k].alerted = IF <<k, "clear">> \in failed
                                     THEN all_rows[k].alerted
                                     ELSE Absent

C5_Witness ==
    /\ pc = "done"
    /\ \E k \in 1..Len(all_rows) :
          /\ RowChecked(k)
          /\ Live(k) = Rs(1200)
          /\ all_rows[k].target = Rs(1000)
          /\ all_rows[k].alerted = Some(Rs(900))
          /\ rows[k].alerted = Absent

-----------------------------------------------------------------------------
(* C6: paused entries (Spec) *)

\* every history row and change record of the cycle belongs to a checked row
OnlyCheckedRowsReported ==
    LET checkedRows == { k \in 1..Len(all_rows) : RowChecked(k) }
    IN  /\ Len(AppendedNow) <= Cardinality(checkedRows)
        /\ Len(changes) <= Cardinality(checkedRows)
        /\ \A j \in 1..Len(AppendedNow) : \E k \in checkedRows :
              /\ AppendedNow[j].name = all_rows[k].name
              /\ AppendedNow[j].price = Round2(Live(k))
        /\ \A j \in 1..Len(changes) : \E k \in checkedRows :
              /\ changes[j].name = all_rows[k].name
              /\ changes[j].new_price = Live(k)

\* C6: in every cycle a paused entry is not fetched, its row (price,
\* Last_Alerted and status included) is left as it was, it is not in the alert
\* list, and no history row or change record is produced for it.
C6_PausedUntouched ==
    InCycle =>
        /\ \A k \in 1..Len(all_rows) :
              all_rows[k].status = "paused" =>
                  /\ scraped[k] = NotCalled
                  /\ rows[k] = all_rows[k]
                  /\ ~InAlerts(k)
        /\ LET live == { k \in 1..Len(all_rows) : all_rows[k].status # "paused" }
           IN  Len(AppendedNow) <= Cardinality(live)
               /\ Len(changes) <= Cardinality(live)
        /\ OnlyCheckedRowsReported

\* a paused entry with a stored price sits next to an entry that alerts
C6_Witness ==
    /\ pc = "done"
    /\ \E k, j \in 1..Len(all_rows) :
          /\ all_rows[k].status = "paused"
          /\ all_rows[k].price # Absent
          /\ RowChecked(j)
          /\ InAlerts(j)
          /\ Len(AppendedNow) = 1

-----------------------------------------------------------------------------
(* C7: the checked count (Spec) *)

\* C7 as stated: the count of checked products a cycle reports (the
\* products_checked of the endpoint, the total of the digest footer) counts
\* no paused entry.
C7_CheckedCountExcludesPaused ==
    InCycle =>
        total <= Cardinality({ k \in 1..Len(all_rows) :
                                   all_rows[k].status # "paused" })

-----------------------------------------------------------------------------
(* C8: no price extracted (Spec) *)

\* C8: an active entry for which no price is extracted keeps its row as it
\* was, is not in the alert list, and no history row or change record is
\* produced for it.
C8_NoPriceUntouched ==
    InCycle =>
        /\ \A k \in 1..Len(all_rows) :
              all_rows[k].status # "paused" /\ scraped[k].price = Absent =>
                  /\ rows[k] = all_rows[k]
                  /\ ~InAlerts(k)
        /\ OnlyCheckedRowsReported

\* one entry with a stored price yields no price while another is checked
C8_Witness ==
    /\ pc = "done"
    /\ \E k, j \in 1..Len(all_rows) :
          /\ all_rows[k].status # "paused"
          /\ scraped[k] = Info(Absent, Absent)
          /\ all_rows[k].price # Absent
          /\ RowChecked(j)
          /\ Len(AppendedNow) = 1

-----------------------------------------------------------------------------
(* C9: price history (Spec) *)

\* the history after a step holds the rows before it plus, for the rows of
\* `logged` in sheet order, the name, the live price at two decimals and the
\* target at zero decimals
AppendsFor(logged) ==
    LET new == SubSeq(history', Len(history) + 1, Len(history'))
    IN  /\ Len(new) = Cardinality(logged)
        /\ \A j \in 1..Len(new) :
              LET k == Nth(logged, j)
              IN  new[j] = [name |-> rows[k].name,
                            price |-> Round2(scraped'[k].price[1]),
                            target |-> Round0(rows[k].target)]

IsCheckStep == pc = "idle" /\ pc' = "notify"

\* C9 as stated: the history only grows, and a cycle appends exactly one row
\* per entry whose price was extracted, alert or no alert.
C9_HistoryOnePerExtraction ==
    [][ /\ IsPrefix(history, history')
        /\ IsCheckStep =>
              AppendsFor({ k \in 1..Len(rows) :
                  rows[k].status # "paused" /\ scraped'[k].price # Absent })
        /\ ~IsCheckStep => history' = history ]_vars

\* C9 amended: the history only grows, and a cycle appends exactly one row per
\* entry whose price was extracted and whose append did not raise (the
\* exception is swallowed and the row is lost), alert or no alert.
C9_HistoryOnePerLoggedExtraction ==
    [][ /\ IsPrefix(history, history')
        /\ IsCheckStep =>
              AppendsFor({ k \in 1..Len(rows) :
                  /\ rows[k].status # "paused"
                  /\ scraped'[k].price # Absent
                  /\ <<k, "history">> \notin failed' })
        /\ ~IsCheckStep => history' = history ]_vars

\* two entries are logged in one cycle, one of them alerting, one not
C9_Witness ==
    /\ pc = "notify"
    /\ Len(all_rows) = 2
    /\ RowChecked(1) /\ RowChecked(2)
    /\ Len(alerts) = 1
    /\ Len(AppendedNow) = 2

-----------------------------------------------------------------------------
(* C10: Current_Price after a cycle (Spec) *)

\* C10 as stated: after a cycle the Current_Price of every checked entry is
\* the live price at two decimals.
C10_PriceIsLivePrice ==
    InCycle =>
        \A k \in 1..Len(all_rows) :
            RowChecked(k) => rows[k].price = Some(Round2(Live(k)))

\* C10 amended: the same, unless the Current_Price write raised; the exception
\* is swallowed and the cell keeps what it held.
C10_PriceIsLivePriceUnlessWriteFails ==
    InCycle =>
        \A k \in 1..Len(all_rows) :
            RowChecked(k) =>
                rows[k].price = IF <<k, "price">> \in failed
                                THEN all_rows[k].price
                                ELSE Some(Round2(Live(k)))

C10_Witness ==
    /\ pc = "done"
    /\ \E k \in 1..Len(all_rows) :
          /\ RowChecked(k)
          /\ Live(k) = 900002
          /\ all_rows[k].price = Some(Rs(1200))
          /\ rows[k].price = Some(Rs(900))

-----------------------------------------------------------------------------
(* C11: the changed set (Spec) *)

\* the rows a cycle must report as changed
ChangedRows ==
    { k \in 1..Len(all_rows) :
        /\ RowChecked(k)
        /\ all_rows[k].price # Absent
        /\ all_rows[k].price[1] # Live(k) }

\* C11: the change list of a cycle holds, in sheet order, exactly one record
\* for each checked entry that had a stored price different from the live
\* price, above target or not; an entry without a stored price is not listed.
C11_ChangedSet ==
    InCycle =>
        /\ Len(changes) = Cardinality(ChangedRows)
        /\ \A j \in 1..Len(changes) :
              LET k == Nth(ChangedRows, j)
              IN  /\ changes[j].name = all_rows[k].name
                  /\ changes[j].old_price = all_rows[k].price[1]
                  /\ changes[j].new_price = Live(k)

\* of two checked entries one moved below target (changed and alerted), the
\* other had no stored price (not changed)
C11_Witness ==
    /\ InCycle
    /\ Len(changes) = 1
    /\ \E k, j \in 1..Len(all_rows) :
          /\ k \in ChangedRows /\ InAlerts(k)
          /\ RowChecked(j) /\ all_rows[j].price = Absent

-----------------------------------------------------------------------------
(* C12: duplicate add (SpecCmd) *)

\* the rows the last message of an invocation found: those the invocation
\* left, less the row that message appended
RowsBeforeLast(rs2, a) ==
    IF a.outcome = "added" THEN SubSeq(rs2, 1, Len(rs2) - 1) ELSE rs2

\* a is an add whose URL, up to the first '?', is that of an entry of rs
IsDuplicateAdd(rs, a) ==
    /\ a.cmd = "add"
    /\ detect_platform(a.url) # "unknown"
    /\ \E k \in 1..Len(rs) : BaseUrl(rs[k].url) = BaseUrl(a.url)

\* such an add is answered as a duplicate, without extraction
DuplicateAnswered(rs, a) ==
    IsDuplicateAdd(rs, a) => a.outcome = "duplicate" /\ ~a.fetched

\* C12: an add of a URL that equals, up to the query string, the URL of an
\* existing entry is rejected: no extraction, watchlist unchanged.  Checked
\* for a single message and for the messages of a batch (the first of them
\* when the second is an add too, so that the rows in between are known).
C12_DuplicateAddRejected ==
    [][ /\ Len(reply') = 1 =>
              /\ DuplicateAnswered(rows, reply'[1])
              /\ IsDuplicateAdd(rows, reply'[1]) => rows' = rows
        /\ Len(reply') = 2 /\ reply'[2].cmd = "add" =>
              LET mid == RowsBeforeLast(rows', reply'[2])
              IN  /\ DuplicateAnswered(rows, reply'[1])
                  /\ IsDuplicateAdd(rows, reply'[1]) => mid = rows
                  /\ DuplicateAnswered(mid, reply'[2])
                  /\ IsDuplicateAdd(mid, reply'[2]) => rows' = mid
      ]_vars

\* an add of /a?x was rejected while /a is on the watchlist
C12_Witness ==
    /\ Len(reply) = 1
    /\ reply[1].cmd = "add"
    /\ reply[1].url = <<"amazon", "/a", "?", "x">>
    /\ reply[1].outcome = "duplicate"
    /\ ~reply[1].fetched
    /\ \E k \in 1..Len(rows) : rows[k].url = <<"amazon", "/a">>

-----------------------------------------------------------------------------
(* C13: no two entries with the same URL (SpecIdx) *)

\* C13: whatever messages and cycles have run, one invocation at a time, no
\* two entries of the watchlist have URLs that are equal up to the query
\* string.
C13_NoDuplicateUrls ==
    \A j, k \in 1..Len(rows) :
        j # k => BaseUrl(rows[j].url) # BaseUrl(rows[k].url)

\* two entries are on the watchlist after /a?x was turned down, and a cycle
\* has run
C13_Witness ==
    /\ Len(rows) = 2
    /\ history # <<>>
    /\ Len(reply) = 1
    /\ reply[1].cmd = "add"
    /\ reply[1].outcome = "duplicate"
    /\ \E k \in 1..Len(rows) : rows[k].url # reply[1].url

-----------------------------------------------------------------------------
(* C14: what Last_Alerted holds (SpecObs) *)

\* x was written to Current_Price by a cycle that observed it: a finished
\* cycle of the log, or the one in progress
StoredAsLastPrice(x) ==
    \/ \E j \in 1..Len(log) :
          /\ Round2(log[j].price[1]) = x
          /\ <<1, "price">> \notin log[j].failed
    \/ /\ InCycle
       /\ Round2(Live(1)) = x
       /\ <<1, "price">> \notin failed

\* x is, at two decimals, a price a cycle observed at or below target
ObservedUnderTarget(x) ==
    \/ \E j \in 1..Len(log) :
          Round2(log[j].price[1]) = x /\ log[j].price[1] <= log[j].target
    \/ InCycle /\ Round2(Live(1)) = x /\ Live(1) <= all_rows[1].target

-----------------------------------------------------------------------------
(* C15: auto-target (SpecCmd) *)

\* the answer to the last message of the last invocation
LastAnswer == reply[Len(reply)]

\* the last message was an add that appended the last row
LastAdded == Len(reply) > 0 /\ LastAnswer.cmd = "add" /\ LastAnswer.outcome = "added"

AbsDiff(x, y) == IF x >= y THEN x - y ELSE y - x

\* C15: an add without target whose extraction gave a price p > 0 stores as
\* target a whole number of rupees at most half a rupee away from 85% of p;
\* p = 2000 gives 1700.  The same is computed for every price of 0.01 to
\* AutoRange / 100 rupees.
C15_AutoTarget ==
    LastAdded /\ LastAnswer.target = Absent /\ LastAnswer.info.price # Absent =>
        LET p == LastAnswer.info.price[1]
            t == rows[Len(rows)].target
        IN  /\ t % 1000 = 0
            /\ AbsDiff(100 * t, 85 * p) <= 50000
            /\ p = Rs(2000) => t = Rs(1700)
            /\ \A n \in 1..AutoRange :
                  /\ AutoTarget(10 * n) % 1000 = 0
                  /\ AbsDiff(100 * AutoTarget(10 * n), 85 * 10 * n) <= 50000

\* both auto-targets have been stored: 1700 for 2000 and 8 for 10
C15_Witness ==
    /\ Len(rows) = 2
    /\ LastAdded
    /\ LastAnswer.target = Absent
    /\ rows[1].price = Some(Rs(2000)) /\ rows[1].target = Rs(1700)
    /\ rows[2].price = Some(Rs(10)) /\ rows[2].target = Rs(8)

-----------------------------------------------------------------------------
(* C16: the target an accepted add stores (SpecCmd) *)

\* row r is what an accepted add a must store
StoresAddedRow(a, r) ==
    /\ r.url = a.url
    /\ a.target # Absent => r.target = a.target[1]
    /\ a.target = Absent /\ a.info.price # Absent =>
          /\ r.target % 1000 = 0
          /\ AbsDiff(100 * r.target, 85 * a.info.price[1]) <= 50000
    /\ a.target = Absent /\ a.info.price = Absent => r.target = 0

\* C16: an add of a supported URL that is no duplicate appends one entry,
\* whatever the extraction gave, and its target is the one given, else the
\* auto-target of the scraped price, else 0.
C16_AddedTarget ==
    [][ Len(reply') = 1 /\ reply'[1].cmd = "add"
            /\ detect_platform(reply'[1].url) # "unknown"
            /\ ~IsDuplicateAdd(rows, reply'[1])
        => /\ reply'[1].outcome = "added"
           /\ Len(rows') = Len(rows) + 1
           /\ SubSeq(rows', 1, Len(rows)) = rows
           /\ StoresAddedRow(reply'[1], rows'[Len(rows')]) ]_vars

\* an entry was created with the placeholder target from an extraction that
\* gave neither title nor price, next to one with an explicit target
C16_Witness ==
    /\ Len(rows) = 2
    /\ LastAdded
    /\ LastAnswer.target = Absent
    /\ LastAnswer.info = Info(Absent, Absent)
    /\ rows[2].target = 0
    /\ rows[2].price = Absent
    /\ rows[1].price = Some(Rs(2000)) /\ rows[1].target = Rs(1000)

-----------------------------------------------------------------------------
(* C17: field ownership (SpecIdx) *)

\* a step of the cycle: phase 2, phase 3 or its return
IsCycleStep == pc # "idle" \/ pc' # "idle"

\* rows' is rows but for the fields of F in row idx
OnlyFieldChanged(idx, F) ==
    /\ Len(rows') = Len(rows)
    /\ \A k \in 1..Len(rows) :
          /\ k # idx => rows'[k] = rows[k]
          /\ "name" \notin F => rows'[k].name = rows[k].name
          /\ "url" \notin F => rows'[k].url = rows[k].url
          /\ "target" \notin F => rows'[k].target = rows[k].target
          /\ "price" \notin F => rows'[k].price = rows[k].price
          /\ "alerted" \notin F => rows'[k].alerted = rows[k].alerted
          /\ "status" \notin F => rows'[k].status = rows[k].status

\* C17: a cycle changes no name, URL, target or status and neither the number
\* nor the order of the entries; an edit sets the target of its entry and
\* nothing else, a pause or resume the status of its entry and nothing else;
\* any other message that neither adds nor removes leaves every row as it was.
C17_FieldOwnership ==
    [][ /\ IsCycleStep =>
              /\ Len(rows') = Len(rows)
              /\ \A k \in 1..Len(rows) :
                    /\ rows'[k].name = rows[k].name
                    /\ rows'[k].url = rows[k].url
                    /\ rows'[k].target = rows[k].target
                    /\ rows'[k].status = rows[k].status
        /\ ~IsCycleStep /\ Len(reply') = 1 =>
              LET a == reply'[1]
              IN  /\ a.cmd = "edit" /\ ~InvalidIndex(rows, a.idx) =>
                        /\ OnlyFieldChanged(a.idx, {"target"})
                        /\ rows'[a.idx].target = a.target[1]
                  /\ a.cmd = "pause" /\ ~InvalidIndex(rows, a.idx) =>
                        /\ OnlyFieldChanged(a.idx, {"status"})
                        /\ rows'[a.idx].status = "paused"
                  /\ a.cmd = "resume" /\ ~InvalidIndex(rows, a.idx) =>
                        /\ OnlyFieldChanged(a.idx, {"status"})
                        /\ rows'[a.idx].status = "active"
                  /\ a.cmd = "history" => rows' = rows
        /\ ~IsCycleStep /\ Len(rows') = Len(rows) =>
              \A k \in 1..Len(rows) :
                  /\ rows'[k].price = rows[k].price
                  /\ rows'[k].alerted = rows[k].alerted
      ]_vars

\* after a cycle that alerted the second entry, its target was edited: price
\* and Last_Alerted are as the cycle left them
C17_Witness ==
    /\ pc = "idle"
    /\ Len(rows) = 2
    /\ Len(reply) = 1
    /\ reply[1].cmd = "edit" /\ reply[1].idx = 2 /\ reply[1].outcome = "updated"
    /\ rows[2].target = Rs(875)
    /\ rows[2].price = Some(Rs(900))
    /\ rows[2].alerted = Some(Rs(900))
    /\ rows[1].target = Rs(1000)
    /\ rows[1].status = "paused"

-----------------------------------------------------------------------------
(* C18: resume keeps Last_Alerted (Spec) *)

\* a command step that takes some entry out of the paused state
IsResumeStep ==
    /\ pc = "idle" /\ pc' = "idle"
    /\ Len(rows') = Len(rows)
    /\ \E k \in 1..Len(rows) :
          rows[k].status = "paused" /\ rows'[k].status = "active"

-----------------------------------------------------------------------------
(* C19: indexed commands (SpecIdx) *)

IndexCmds == {"edit", "remove", "pause", "resume", "history"}

\* answer a is what an indexed command owes to the listing rs it ran on, and
\* rs2 is the listing it left
IndexedOutcome(rs, a, rs2) ==
    IF a.idx < 1 \/ a.idx > Len(rs)
    THEN /\ a.outcome = "invalid_index"
         /\ a.count = Len(rs)
         /\ rs2 = rs
    ELSE /\ a.outcome # "invalid_index"
         /\ a.cmd = "remove" =>
               /\ a.outcome = "removed"
               /\ Len(rs2) = Len(rs) - 1
               /\ \A k \in 1..Len(rs2) :
                     rs2[k] = IF k < a.idx THEN rs[k] ELSE rs[k + 1]
         /\ a.cmd = "edit" =>
               /\ a.outcome = "updated"
               /\ Len(rs2) = Len(rs)
               /\ rs2[a.idx].target = a.target[1]
               /\ \A k \in 1..Len(rs) : k # a.idx => rs2[k] = rs[k]
         /\ a.cmd = "pause" =>
               /\ a.outcome = "paused"
               /\ Len(rs2) = Len(rs)
               /\ rs2[a.idx].status = "paused"
               /\ \A k \in 1..Len(rs) : k # a.idx => rs2[k] = rs[k]
         /\ a.cmd = "resume" =>
               /\ a.outcome = "resumed"
               /\ Len(rs2) = Len(rs)
               /\ rs2[a.idx].status = "active"
               /\ \A k \in 1..Len(rs) : k # a.idx => rs2[k] = rs[k]
         /\ a.cmd = "history" =>
               /\ rs2 = rs
               /\ a.outcome = "history" <=>
                     \E j \in 1..Len(history) : history[j].name = rs[a.idx].name

\* C19: a single indexed command is answered against the listing it finds:
\* out of 1..Len the answer is the invalid-index message with the number of
\* entries and the listing stays as it is, otherwise the entry at that
\* position is acted on; in a batch the second command is answered against
\* the listing the first one left.
C19_IndexedCommands ==
    [][ /\ ~IsCycleStep /\ Len(reply') = 1 /\ reply'[1].cmd \in IndexCmds =>
              IndexedOutcome(rows, reply'[1], rows')
        /\ ~IsCycleStep /\ Len(reply') = 2 /\ reply'[1].cmd = "remove"
                        /\ reply'[2].cmd \in IndexCmds =>
              \E mid \in {rows, SubSeq(rows, 2, Len(rows))} :
                  /\ IndexedOutcome(rows, reply'[1], mid)
                  /\ IndexedOutcome(mid, reply'[2], rows')
      ]_vars

\* a batch on two entries: the first was removed, and the edit of entry 2 that
\* followed was told that there is one product
C19_Witness ==
    /\ pc = "idle"
    /\ Len(reply) = 2
    /\ reply[1].cmd = "remove" /\ reply[1].idx = 1 /\ reply[1].outcome = "removed"
    /\ reply[2].cmd = "edit" /\ reply[2].idx = 2
    /\ reply[2].outcome = "invalid_index" /\ reply[2].count = 1
    /\ Len(rows) = 1
    /\ rows[1].target = Rs(1000)

-----------------------------------------------------------------------------
(* C20: per-entry isolation (SpecIso) *)

\* C20: whatever fails for one entry, a cycle that has started returns its
\* alert and changed sets, and every other active entry has been put to the
\* extraction.
C20_EntryIsolation ==
    pc # "idle" =>
        /\ pc \in {"notify", "done"}
        /\ \A k \in 1..Len(all_rows) :
              Active(all_rows[k]) /\ ParsesTarget(all_rows[k])
              => scraped[k] # NotCalled

-----------------------------------------------------------------------------
(* C21: store and notifier failures are swallowed (Spec) *)

\* no store write of entry k raised in this cycle
NoFailureOf(k) == \A w \in failed : w[1] # k

\* C21: whichever store writes raised, every active entry of the sheet was put
\* to the extraction, every checked entry whose own writes went through holds
\* the live price and, if it was due, an empty Last_Alerted, the history grew
\* by one row per checked entry whose append went through; and when the send
\* failed the cycle is complete all the same, with the Last_Alerted of the
\* alerted entries written.
C21_FailuresSwallowed ==
    /\ InCycle =>
          /\ \A k \in 1..Len(all_rows) :
                Active(all_rows[k]) => scraped[k] # NotCalled
          /\ \A k \in 1..Len(all_rows) :
                RowChecked(k) /\ NoFailureOf(k) =>
                    /\ rows[k].price = Some(Round2(Live(k)))
                    /\ Live(k) > all_rows[k].target => rows[k].alerted = Absent
          /\ Len(AppendedNow) =
                Cardinality({ k \in 1..Len(all_rows) :
                                RowChecked(k) /\ <<k, "history">> \notin failed })
    /\ pc = "done" /\ message # Absent /\ ~delivered =>
          \A k \in 1..Len(all_rows) :
              InAlerts(k) /\ NoFailureOf(k) =>
                  rows[k].alerted = Some(Round2(Live(k)))

\* the Current_Price write of the first entry raised; the second entry was
\* checked after it and holds its live price
C21_Witness ==
    /\ pc = "notify"
    /\ Len(all_rows) = 2
    /\ failed = { <<1, "price">> }
    /\ RowChecked(1)
    /\ RowChecked(2)
    /\ Live(2) = 900002
    /\ all_rows[2].price = Some(Rs(1200))
    /\ rows[2].price = Some(Rs(900))
    /\ Len(AppendedNow) = 2

-----------------------------------------------------------------------------
(* C22: one extraction attempt per active entry (SpecFetch) *)

\* the entry was fetched and gave no price: no page, no price in the page, or
\* an exception
FetchFailed(k) == scraped[k] # NotCalled /\ ~Extracted(scraped[k])

C22_OneAttemptEach ==
    InCycle =>
        LET calls == FetchCalls(all_rows)
        IN  /\ \A i, j \in 1..Len(calls) : i < j => calls[i] < calls[j]
            /\ \A k \in 1..Len(all_rows) :
                  /\ Active(all_rows[k]) <=> \E i \in 1..Len(calls) : calls[i] = k
                  /\ scraped[k] # NotCalled <=> \E i \in 1..Len(calls) : calls[i] = k
                  /\ FetchFailed(k) =>
                        /\ rows[k] = all_rows[k]
                        /\ ~InAlerts(k)
                  /\ RowChecked(k) /\ NoFailureOf(k) =>
                        rows[k].price = Some(Round2(Live(k)))

-----------------------------------------------------------------------------
(* C23: order of the alert list and of the change list (Spec) *)

\* f places the records of a list on rows of the sheet, later records on
\* later rows
Ascending(f, n) == \A i, j \in 1..n : i < j => f[i] < f[j]

\* C23: the records of the alert list and those of the change list belong to
\* checked rows of the sheet, no two to the same row, in the order of the
\* rows.
C23_ListsInSheetOrder ==
    InCycle =>
        /\ \E f \in [1..Len(alerts) -> 1..Len(all_rows)] :
              /\ Ascending(f, Len(alerts))
              /\ \A j \in 1..Len(alerts) :
                    /\ RowChecked(f[j])
                    /\ alerts[j].row_index = f[j] + 1
                    /\ alerts[j].name = all_rows[f[j]].name
                    /\ alerts[j].url = all_rows[f[j]].url
                    /\ alerts[j].live_price = Live(f[j])
        /\ \E g \in [1..Len(changes) -> 1..Len(all_rows)] :
              /\ Ascending(g, Len(changes))
              /\ \A j \in 1..Len(changes) :
                    /\ RowChecked(g[j])
                    /\ changes[j].name = all_rows[g[j]].name
                    /\ changes[j].old_price = all_rows[g[j]].price[1]
                    /\ changes[j].new_price = Live(g[j])
                    /\ changes[j].target = all_rows[g[j]].target

\* both entries of the sheet, of different names, moved under their target
C23_Witness ==
    /\ InCycle
    /\ Len(all_rows) = 2
    /\ all_rows[1].name # all_rows[2].name
    /\ Len(alerts) = 2
    /\ Len(changes) = 2
    /\ changes[1].name = all_rows[1].name
    /\ changes[2].name = all_rows[2].name

-----------------------------------------------------------------------------
(* C24: the price strategies in their order (SpecPage) *)

\* the pages that were parsed: the printed results whose request was answered
\* without an error status
Parsed ==
    { k \in 1..Len(printed) :
        printed[k].resp.kind = "response" /\ ~RaisesForStatus(printed[k].resp.status) }

PageOf(k) == printed[k].resp.page[1]

PlatformOf(k) == detect_platform(printed[k].url)

\* what the four strategies give for a page: structured data, the selectors
\* of the platform, the price meta tags, the rupee-sign fallback
StrategyPrices(page, platform) ==
    << page.ld_price, PriceFromSelectors(page, platform),
       extract_price_from_meta(page), extract_price_from_html_regex(page.rupees) >>

\* the first of the values s that is present
FirstYield(s) ==
    IF \E i \in 1..Len(s) : s[i] # Absent
    THEN s[SeqMin({ i \in 1..Len(s) : s[i] # Absent })]
    ELSE Absent

\* the first of the values s that is present and not 0
FirstNonZero(s) ==
    IF \E i \in 1..Len(s) : Truthy(s[i])
    THEN s[SeqMin({ i \in 1..Len(s) : Truthy(s[i]) })]
    ELSE Absent

\* C24 as stated: the price of a parsed page is the value of the first
\* strategy that gives one, and is absent only if none gives one.
C24_FirstStrategyWins ==
    \A k \in Parsed :
        printed[k].info.price = FirstYield(StrategyPrices(PageOf(k), PlatformOf(k)))

\* C24 amended: the price of a parsed page is the value of the first strategy
\* that gives a value other than 0; a strategy that gives 0 counts as having
\* given nothing, and the price is absent if no strategy gives a non-zero
\* value.
C24_FirstNonZeroStrategyWins ==
    \A k \in Parsed :
        printed[k].info.price = FirstNonZero(StrategyPrices(PageOf(k), PlatformOf(k)))

\* structured data says 499, the Amazon price selector 599: the price is 499
C24_Witness ==
    /\ Len(printed) = 1
    /\ 1 \in Parsed
    /\ PlatformOf(1) = "amazon"
    /\ PageOf(1).ld_price = Some(Rs(499))
    /\ "span.a-price-whole" \in DOMAIN PageOf(1).tags
    /\ PageOf(1).tags["span.a-price-whole"] = <<Rs(599)>>
    /\ printed[1].info.price = Some(Rs(499))

-----------------------------------------------------------------------------
(* C25: the rupee-sign fallback (SpecPage) *)

\* the numbers the fallback reads after the rupee signs of a page
RupeeValues(page) ==
    { Matched(page.rupees[j]) : j \in { i \in 1..Len(page.rupees) :
                                          page.rupees[i] # Unparseable } }

\* the strategies before the fallback gave nothing for the page
OnlyFallbackLeft(page, platform) ==
    /\ ~Truthy(page.ld_price)
    /\ ~Truthy(PriceFromSelectors(page, platform))
    /\ ~Truthy(extract_price_from_meta(page))

-----------------------------------------------------------------------------
(* C26: detect_platform (SpecPage) *)

Platforms == {"amazon", "flipkart", "unknown"}

\* the URL holds the marker in some spelling
HasAmazon(url) == \E k \in 1..Len(url) : url[k] \in {"amazon", "Amazon", "AMAZON"}

HasFlipkart(url) == \E k \in 1..Len(url) : url[k] \in {"flipkart", "Flipkart", "FLIPKART"}

C26_OnePlatform ==
    \A k \in 1..Len(printed) :
        LET url == printed[k].url
        IN  /\ detect_platform(url) \in Platforms
            /\ detect_platform(url) = "amazon" <=> HasAmazon(url)
            /\ detect_platform(url) = "flipkart" <=> ~HasAmazon(url) /\ HasFlipkart(url)
            /\ detect_platform(url) = "unknown" <=> ~HasAmazon(url) /\ ~HasFlipkart(url)
            /\ printed[k].resp = NotRequested <=> detect_platform(url) = "unknown"

\* C26: a URL is amazon if it holds the Amazon marker in any spelling,
\* otherwise flipkart if it holds the Flipkart marker in any spelling,
\* otherwise unknown; and classifying it for a scrape changes neither the
\* watchlist nor the history.
C26_DetectPlatform ==
    /\ []C26_OnePlatform
    /\ [][printed' # printed => UNCHANGED <<rows, history, reply, web, answered>>]_vars

\* a URL spelled in capitals is taken for Amazon and its page is requested
C26_Witness ==
    /\ Len(printed) = 1
    /\ printed[1].url = <<"AMAZON", "/a">>
    /\ detect_platform(printed[1].url) = "amazon"
    /\ printed[1].resp.kind = "response"
    /\ printed[1].info.price = Some(Rs(499))

-----------------------------------------------------------------------------
(* C27: scrape_product_info (SpecPage) *)

\* the titles and prices a page can give
TitlesOf(page, platform) ==
    { page.ld_title, TitleFromSelectors(page, platform), page.og_title,
      extract_title_from_page(page) }

PricesOf(page, platform) ==
    { StrategyPrices(page, platform)[i] : i \in 1..4 }

-----------------------------------------------------------------------------
(* C28: the order of an invocation of main (SpecMain) *)

\* C28: an invocation first answers the pending messages, with no cycle data
\* and no history written yet; then checks the sheet as the messages left it,
\* without answering any message; then composes at most one digest, which
\* holds the confirmations of this invocation, all its alerts and all its
\* changes, and is absent exactly when nothing was added and the sheet is
\* empty; then ends.
C28_BatchOrder ==
    [][ /\ pc = "idle" =>
              /\ pc' = "main_check"
              /\ history' = history
              /\ all_rows' = <<>> /\ scraped' = <<>> /\ alerts' = <<>>
              /\ message' = Absent
        /\ pc = "main_check" =>
              /\ pc' = "main_notify"
              /\ all_rows' = rows
              /\ total' = Len(rows)
              /\ Len(scraped') = Len(rows)
              /\ reply' = reply
              /\ Len(rows') = Len(rows)
              /\ message' = Absent
        /\ pc = "main_notify" =>
              /\ pc' = "done"
              /\ reply' = reply
              /\ alerts' = alerts /\ changes' = changes
              /\ message' = Absent <=> (AddedMessages(reply) = <<>> /\ total = 0)
              /\ message' # Absent =>
                    /\ Len(message') = 1
                    /\ message'[1].added = AddedMessages(reply)
                    /\ message'[1].alerts = alerts
                    /\ message'[1].changes = changes
              /\ delivered' => message' # Absent
        /\ pc = "done" =>
              /\ pc' = "idle"
              /\ rows' = rows
              /\ reply' = reply
      ]_vars

\* the entry added by the message of this invocation was checked in the same
\* invocation and is in the one digest, as a confirmation and as an alert
C28_Witness ==
    /\ pc = "done"
    /\ Len(reply) = 1
    /\ reply[1].cmd = "add" /\ reply[1].outcome = "added"
    /\ Len(all_rows) = 1
    /\ all_rows[1].url = reply[1].url
    /\ scraped[1] = Info(Absent, Some(900002))
    /\ Len(alerts) = 1
    /\ message # Absent
    /\ Len(message[1].added) = 1
    /\ Len(message[1].alerts) = 1
    /\ delivered

-----------------------------------------------------------------------------
(* C29: Last_Alerted and the delivery of the alert (Spec) *)

\* the digest that was composed lists an alert for row k at price p
DigestAlerts(k, p) ==
    /\ message # Absent
    /\ \E j \in 1..Len(message[1].alerts) :
          /\ message[1].alerts[j].row_index = k + 1
          /\ Some(Round2(message[1].alerts[j].live_price)) = p

\* C29: when a cycle is complete, every Last_Alerted it has written holds the
\* price of an alert for that entry in a digest the notifier delivered.
C29_AlertedWasDelivered ==
    pc = "done" =>
        \A k \in 1..Len(all_rows) :
            rows[k].alerted # Absent /\ rows[k].alerted # all_rows[k].alerted
            => DigestAlerts(k, rows[k].alerted) /\ delivered

-----------------------------------------------------------------------------
(* C30: remove and remove all (SpecCmd) *)

\* the rows of rs but for the one at idx, in their order
WithoutRow(rs, idx) ==
    [k \in 1..(Len(rs) - 1) |-> IF k < idx THEN rs[k] ELSE rs[k + 1]]

\* C30: a single remove with a valid index leaves the other rows as they
\* were and in their order, the later ones one place up; a single remove all
\* on a watchlist that has entries leaves no data row and the header in row 1,
\* and on an empty watchlist leaves it empty and says so.
C30_Remove ==
    [][ Len(reply') = 1 =>
          LET a == reply'[1]
          IN  /\ a.cmd = "remove" /\ a.idx >= 1 /\ a.idx <= Len(rows) =>
                    /\ a.outcome = "removed"
                    /\ Len(rows') = Len(rows) - 1
                    /\ rows' = WithoutRow(rows, a.idx)
              /\ a.cmd = "remove_all" /\ Len(rows) > 0 =>
                    /\ a.outcome = "cleared"
                    /\ a.count = Len(rows)
                    /\ rows' = <<>>
                    /\ ClearSheet(Sheet(rows)) = <<Header>>
              /\ a.cmd = "remove_all" /\ Len(rows) = 0 =>
                    /\ a.outcome = "already_empty"
                    /\ rows' = <<>>
      ]_vars

\* the first of two entries was removed: the second is now the first
C30_Witness ==
    /\ Len(reply) = 1
    /\ reply[1].cmd = "remove" /\ reply[1].idx = 1 /\ reply[1].outcome = "removed"
    /\ Len(rows) = 1
    /\ detect_platform(rows[1].url) = "flipkart"

-----------------------------------------------------------------------------
(* C31: Last_Alerted against Current_Price after a cycle (SpecObs) *)

\* both phases of the cycle have run and none of its store writes raised
CycleCompleteWritesOK == pc = "done" /\ failed = {}

\* C31 as stated: after a complete cycle whose store writes all succeeded,
\* every entry whose price was extracted has Last_Alerted equal to the stored
\* Current_Price if that is at or below target, and empty if it is above.
C31_AlertedFollowsStoredPrice ==
    CycleCompleteWritesOK =>
        \A k \in 1..Len(all_rows) :
            RowChecked(k) =>
                /\ rows[k].price # Absent
                /\ rows[k].alerted = IF rows[k].price[1] <= rows[k].target
                                     THEN rows[k].price
                                     ELSE Absent

\* C31 amended: the same with the comparison made on the extracted price, as
\* the cycle makes it, and not on its two-decimal form stored as Current_Price:
\* Last_Alerted equals Current_Price if the extracted price is at or below
\* target, and is empty if the extracted price is above target.
C31_AlertedFollowsLivePrice ==
    CycleCompleteWritesOK =>
        \A k \in 1..Len(all_rows) :
            RowChecked(k) =>
                /\ rows[k].price = Some(Round2(Live(k)))
                /\ rows[k].alerted = IF Live(k) <= all_rows[k].target
                                     THEN rows[k].price
                                     ELSE Absent

\* a cycle at 1000.004 over target 1000: stored as 1000.00, nothing alerted
C31_Witness ==
    /\ CycleCompleteWritesOK
    /\ Len(all_rows) = 1
    /\ RowChecked(1)
    /\ Live(1) = 1000004
    /\ rows[1].target = Rs(1000)
    /\ rows[1].price = Some(Rs(1000))
    /\ all_rows[1].alerted # Absent
    /\ rows[1].alerted = Absent

-----------------------------------------------------------------------------
(* C32: the cycle's writes under concurrent instant-mode requests (SpecRace) *)

\* the step is the loop of phase2_check_prices
IsLoopStep == pc = "loop" /\ pc' = "notify"

\* the step is phase3_notify
IsNotifyStep == pc = "notify" /\ pc' = "done"

\* C32: the Current_Price and the clearing of Last_Alerted the loop writes for
\* the row it read at position k, and the Last_Alerted phase3_notify writes for
\* an alert, land on the entry that has the URL that was scraped, also when a
\* webhook request removed or added an entry after the cycle read the sheet.
C32_WritesLandOnScrapedEntry ==
    [][ /\ IsLoopStep =>
              \A k \in 1..Len(all_rows) :
                  Checked(all_rows[k], scraped'[k]) =>
                      /\ k <= Len(rows)
                      /\ rows[k].url = all_rows[k].url
        /\ IsNotifyStep =>
              \A j \in 1..Len(alerts) :
                  /\ alerts[j].row_index - 1 <= Len(rows)
                  /\ rows[alerts[j].row_index - 1].url = alerts[j].url
      ]_vars

-----------------------------------------------------------------------------
(* C33: adds of one URL served at the same time (SpecAdds) *)

\* the positions of the watchlist that hold the URL, query string left out
EntriesFor(url) == { k \in 1..Len(rows) : BaseUrl(rows[k].url) = BaseUrl(url) }

\* C33: whatever the order in which the duplicate checks, the extractions and
\* the appends of concurrently served add requests take place, the watchlist
\* holds at most one entry for a URL (query string left out).
C33_OneEntryPerUrl ==
    \A url \in AddsURLs : Cardinality(EntriesFor(url)) <= 1

-----------------------------------------------------------------------------
(* C34: each update is applied at most once (SpecUpd) *)

\* the step is a command phase that ran to its end
IsCompletedCommandPhase == pc = "idle" /\ pc' = "main_check"

\* the largest update_id of a sequence of updates, 0 if it is empty
MaxUpdateId(updates) ==
    IF updates = <<>> THEN 0
    ELSE CHOOSE x \in { updates[k].update_id : k \in 1..Len(updates) } :
            \A k \in 1..Len(updates) : updates[k].update_id <= x

\* no update ID occurs twice among the commands that changed the sheet
AppliedOnce(ids) == \A i, j \in 1..Len(ids) : i # j => ids[i] # ids[j]

\* C34: the stored last_update_id never decreases; a command phase that ran
\* to its end and fetched updates leaves it at the largest update_id fetched;
\* and no update is applied twice, also when an invocation ended with an
\* exception in the middle of its command phase.
C34_UpdatesAppliedOnce ==
    [][ /\ last_update_id' >= last_update_id
        /\ IsCompletedCommandPhase /\ get_telegram_updates(last_update_id) # <<>> =>
              last_update_id' = MaxUpdateId(get_telegram_updates(last_update_id))
        /\ AppliedOnce(applied')
      ]_vars

-----------------------------------------------------------------------------
(* C35: the unchanged count of the digest footer (Spec) *)

\* the entries the cycle checked whose price did not move and that did not alert
UnchangedRows ==
    { k \in 1..Len(all_rows) :
        /\ RowChecked(k)
        /\ ~Moved(all_rows[k], Live(k))
        /\ ~InAlerts(k) }

\* C35: the number the footer of the digest shows as unchanged (or as checked
\* with no changes) is the number of entries that were checked in this cycle,
\* whose price did not change and that did not alert; paused entries and
\* entries whose extraction failed are not in it.
C35_UnchangedCount ==
    pc = "done" /\ message # Absent /\ message[1].footer # <<>> =>
        message[1].footer[2] = Cardinality(UnchangedRows)

-----------------------------------------------------------------------------
(* C36: what /history shows (SpecIdx) *)

\* the last message was /history with a valid index and records were shown
HistoryAnswered ==
    /\ Len(reply) = 1
    /\ reply[1].cmd = "history"
    /\ reply[1].outcome = "history"

\* C36: the records /history N shows were all logged for the entry now at
\* index N (they carry the price of its listing), and for no other entry,
\* past or present, also when entries share their display name; and there
\* are at most ten of them.
C36_HistoryOfTheEntry ==
    HistoryAnswered =>
        LET shown == HistoryShown(rows, history, reply[1].idx)
        IN  /\ Len(shown) <= HistoryLimit
            /\ \A k \in 1..Len(shown) :
                  shown[k].price = Round2(ListedPrice(rows[reply[1].idx].url))

-----------------------------------------------------------------------------
(* C37: structured-data items that yield no price (SpecLd) *)

\* the items of the blocks json.loads accepts, in document order
ItemsInOrder(blocks) ==
    LET f[k \in 0..Len(blocks)] ==
            IF k = 0 THEN <<>>
            ELSE IF blocks[k] = Malformed THEN f[k - 1]
            ELSE f[k - 1] \o blocks[k]
    IN  f[Len(blocks)]

\* the price of an item that qualifies and has a parseable non-zero price
GoodPrice(item) ==
    IF item.is_dict /\ IsProduct(item) /\ item.offers.shape \in {"dict", "list"}
    THEN LET price == PyOr(item.offers.price, item.offers.lowPrice)
         IN  IF PyTruthy(price) /\ price.v # Unparseable /\ price.v # 0
             THEN Some(price.v) ELSE Absent
    ELSE Absent

FirstGoodPrice(items) ==
    IF \E i \in 1..Len(items) : GoodPrice(items[i]) # Absent
    THEN GoodPrice(items[SeqMin({ i \in 1..Len(items) : GoodPrice(items[i]) # Absent })])
    ELSE Absent

\* C37: the structured-data price of a page is the price of the first item in
\* document order that qualifies and has a parseable non-zero price, whatever
\* items without a price, with an unparseable price or with offers of an
\* unexpected shape come before it in its block or in earlier blocks; it is
\* absent only if there is no such item.
C37_BadItemsPassedOver ==
    \A k \in Parsed :
        PageOf(k).ld_price = FirstGoodPrice(ItemsInOrder(PageOf(k).ld))

-----------------------------------------------------------------------------
(* C38: requests without the secret (SpecHook) *)

\* the step answers a request that did not carry the configured secret
AnswersUnauthorized ==
    /\ secret # ""
    /\ answered' # answered
    /\ \/ answered'.route = "/webhook" /\ answered'.token # secret
       \/ answered'.route = "/check-prices" /\ answered'.token # "Bearer " \o secret

\* C38: with a secret configured, a /webhook request whose token header is
\* not the secret and a /check-prices request whose Authorization header is
\* not the bearer form of the secret are answered 403, and the step changes
\* nothing else: no entry, no history row, no message sent, no cycle started.
C38_UnauthorizedChangesNothing ==
    [][ AnswersUnauthorized =>
            /\ answered'.status = 403
            /\ UNCHANGED <<rows, history, pc, locals, log, nfaults, reply,
                           printed, web>>
      ]_vars

\* a watchlist with an entry, and the last request, a webhook with a guessed
\* token, answered 403
C38_Witness ==
    /\ secret = "s3cret"
    /\ Len(rows) > 0
    /\ answered = [route |-> "/webhook", status |-> 403, token |-> "guess"]

-----------------------------------------------------------------------------
(* C39: what an accepted add leaves, and the first cycle after it (SpecSeed) *)

\* the step answers a link that was accepted
IsAcceptedAdd ==
    /\ Len(reply') = 1
    /\ reply'[1].cmd = "add"
    /\ reply'[1].outcome = "added"
    /\ ~is_duplicate_url(rows, reply'[1].url)

\* the entry is as an add left it, its seeded price at or below its target
SeededUnderTarget(r) ==
    r.alerted = Absent /\ r.price # Absent /\ r.price[1] <= r.target

\* C39: an accepted add appends one entry after the existing ones, which stay
\* as they were; the new entry is active, its Last_Alerted is empty and its
\* Current_Price is the seeded price, or empty when none was extracted.  So a
\* cycle that checks an entry added at or below its target, and finds it
\* there, puts it in the alert list.
C39_AcceptedAdd ==
    [][ /\ IsAcceptedAdd =>
              /\ Len(rows') = Len(rows) + 1
              /\ \A k \in 1..Len(rows) : rows'[k] = rows[k]
              /\ LET r == rows'[Len(rows) + 1]
                     info == reply'[1].info
                 IN  /\ r.url = reply'[1].url
                     /\ Active(r)
                     /\ r.alerted = Absent
                     /\ r.price = IF info.kind = "info" THEN info.price ELSE Absent
        /\ IsCheckStep =>
              \A k \in 1..Len(rows) :
                  /\ SeededUnderTarget(rows[k])
                  /\ Checked(rows[k], scraped'[k])
                  /\ scraped'[k].price[1] <= rows[k].target
                  => \E j \in 1..Len(alerts') :
                        /\ alerts'[j].row_index = k + 1
                        /\ alerts'[j].url = rows[k].url
      ]_vars

\* the second entry was added at 900 under its target 1000; the first cycle
\* finds it at 900 and alerts
C39_Witness ==
    /\ pc = "done"
    /\ Len(all_rows) = 2
    /\ all_rows[2].price = Some(Rs(900))
    /\ all_rows[2].alerted = Absent
    /\ all_rows[2].target = Rs(1000)
    /\ RowChecked(2) /\ Live(2) = Rs(900)
    /\ InAlerts(2)
    /\ rows[2].alerted = Some(Rs(900))

====
